---- MODULE Spec2Model ----
(***************************************************************************)
(* Model of the Spotify -> Tidal importer: the synchronisation planner     *)
(* (PlaylistSyncManager.comparePlaylistsForSync), the retry wrapper        *)
(* (ManejadorErrores.ejecutarConReintento), the track resolver             *)
(* (SongMatcher.findBestMatch), the destination writes                     *)
(* (addTracksToTidalPlaylist, addTracksInBatches), the synchronisation run *)
(* (PlaylistSyncManager.performFullSync) and the application               *)
(* (SpotifyTidalApp.run, its progress file and shutdown handlers), and the *)
(* text comparison of the resolver (SongMatcher.normalizeString,           *)
(* calculateSimilarity) on concrete strings, and the scheduling of the     *)
(* concurrent resolutions of addTracksToTidalPlaylist.                     *)
(*                                                                         *)
(* Each subsystem has its own variables and its own specification; a       *)
(* specification keeps the variables of the other subsystems at their      *)
(* idle values.                                                            *)
(***************************************************************************)
EXTENDS Integers, Sequences, FiniteSets, TLC

VARIABLES
  \* --- planner (comparePlaylistsForSync)
  spotifyPlaylists,   \* input: the source roster
  tidalPlaylists,     \* input: the destination roster
  comparisons,        \* output: one PlaylistComparison per source playlist
  planPc,             \* "start" | "done"
  \* --- retry wrapper (ejecutarConReintento)
  configuracion,      \* the ConfiguracionReintento of the ManejadorErrores
  intento,            \* loop counter of the for loop
  reintPc,            \* "invocar" | "dormir" | "retornado" | "lanzado"
  llamadas,           \* outcomes of the invocations of operacion, in order
  dormidos,           \* delays slept, in order
  ultimoError,        \* last classified error, or NoError
  resultado,          \* returned value or thrown error
  \* --- resolver (findBestMatch)
  numArtists,         \* number of artists of the Spotify track
  searchContext,      \* whether a searchContext was passed
  queryIdx,           \* number of queries of searchQueries consumed so far
  searchAttempts,     \* descriptions pushed, in order (strategy numbers)
  busquedas,          \* searchTrack calls issued
  fallidas,           \* searchTrack calls that threw
  puntuados,          \* candidates scored by calculateSimilarity
  puntuadosTrasAlta,  \* candidates scored after a score >= 0.9 had been seen
  bestMatch,          \* best candidate so far, or NoTrack
  bestConfidence,     \* its score, in thousandths
  matchPc,            \* "loop" | "done" | "thrown"
  notFoundLogged,     \* ErrorLogger.logTrackNotFound was called
  vistoMax,           \* history: the largest score among the items returned so far
  \* --- destination writes (create / update / import paths)
  ruta,               \* "create" | "update" | "import"
  trackIds,           \* the ids to write, in order
  loteIdx,            \* loop variable i of addTracksInBatches
  peticiones,         \* the id lists of the addTracksToPlaylist calls, in order
  playlistTidal,      \* content of the destination playlist
  esperas,            \* inter-batch delays slept (ms), in order
  lotePc,             \* "start" | "write" | "delay" | "done" | "thrown"
  \* --- synchronisation run (performFullSync)
  plan,               \* the PlaylistComparison list of the run
  syncIdx,            \* position of the for loop of performFullSync (1-based)
  syncPc,             \* "loop" | "grupo" | "escribir" | "limpiar" | "buscar" | "lotes" | "done" | "thrown"
  summary,            \* the SyncSummary
  result,             \* the PlaylistSyncResult of the playlist at hand
  grupoI,             \* loop variable i of addTracksToTidalPlaylist
  pendientes,         \* tracks of the current group whose promise is pending
  matchedTrackIds,    \* create path: the ids pushed so far
  origenMatched,      \* the source track (position) of each id of matchedTrackIds
  errorsCreate,       \* create path: the errors pushed so far
  tracksUpd,          \* update path: number of tracks getPlaylistTracks returned
  trackIdx,           \* update path: position of the for loop over tracks
  foundTrackIds,      \* update path: the ids pushed so far
  failedTracksUpd,    \* update path: the failedTracks pushed so far
  limpiezaFallida,    \* update path: clearPlaylist threw
  escritos,           \* the ids the destination write of the playlist stored
  conLlamadas,        \* positions of the playlists a remote call was made for
  lanzado,            \* the error that reached the catch of the create / update method
  authVisto,          \* a remote call of the run ended with an ErrorAutenticacion
  ultimaResolucion,   \* update path: the last catalog answer and the id selected
  resueltaCreate,     \* create path: what findBestMatch returned for the last track resolved
  \* --- application (SpotifyTidalApp)
  appPc,              \* "auth" | "sync" | "report" | "cleanup" | "exited"
  maxRetries,         \* config.maxRetries
  totalApp,           \* number of source playlists of the account
  corrida,            \* which process this is (1: the first start)
  state,              \* this.state
  shutdownRequested,  \* this.shutdownRequested
  archivo,            \* .spotify-tidal-progress.json
  archivoAlInicio,    \* the progress file as the process found it
  authAttempt,        \* attempt of authenticateServices
  authFase,           \* "tidal" | "spotify" | "done"
  opAttempt,          \* attempt of retryOperation
  invocaciones,       \* invocations of each user-authentication operation
  ultimaEspera,       \* the last delay slept during authentication, ms
  sincronizadas,      \* playlists performFullSync has processed in this process
  salida,             \* how this process ended: "ninguna" | "normal" | "error" | "senal"
  salidaPrevia,       \* how the process before this one ended
  \* --- text comparison (SongMatcher.normalizeString, calculateSimilarity)
  texto,              \* input: the string handed to normalizeString
  normalizado,        \* normalizeString(texto)
  renormalizado,      \* normalizeString(normalizeString(texto))
  fuente,             \* input: the Spotify track
  candidato,          \* input: the Tidal track every search returns
  similitud,          \* calculateSimilarity(fuente, candidato), thousandths
  consultasTexto,     \* searches findBestMatch issued for fuente
  mejorTexto,         \* bestMatch / bestConfidence of that findBestMatch
  textoPc,            \* "normalizar" | "renormalizar" | "puntuar" | "buscar" | "fin"
  \* --- resolution groups (addTracksToTidalPlaylist)
  pistas,             \* spotifyTracks.length
  grupoDesde,         \* loop variable i of the loop over the groups
  enVuelo,            \* tracks (positions) whose promise is pending
  iniciadas,          \* tracks whose resolution has started
  asentadas,          \* tracks whose promise has settled
  exitosas,           \* successfulTracks
  demoras,            \* delays slept between groups (ms), in order
  gruposPc,           \* "iniciar" | "esperar" | "demora" | "fin"
  \* --- TidalService.clearPlaylist
  contenido,          \* the ids of the tracks in the destination playlist, in order
  idsLeidos,          \* trackIds: the ids the GET of the items returned
  limpiarIdx,         \* loop variable i of the removal loop
  borrados,           \* the id lists of the DELETE requests, in order
  limpiarIntento,     \* attempt of the retry wrapper around the operation
  limpiarPc,          \* "get" | "delete" | "demora" | "retornado" | "lanzado"
  \* --- SongMatcher.calculateDurationSimilarity on two pairs of durations
  duracionesA,        \* duration1 and duration2 of the first comparison, in ms
  duracionesB,        \* duration1 and duration2 of the second comparison, in ms
  similitudA,         \* result of the first comparison, in thousandths; -1 before it
  similitudB,         \* result of the second comparison, in thousandths; -1 before it
  duracionPc,         \* "primera" | "segunda" | "fin"
  \* --- TidalService.searchTrack: getUserInfo inside the retried operation
  cfgAnidado,         \* this.configuracion of the one ManejadorErrores of the service
  externoIntento,     \* intento of the outer ejecutarConReintento
  internoIntento,     \* intento of the inner ejecutarConReintento (getUserInfo)
  invocacionesExternas,\* number of invocations of the outer operation
  llamadasInternas,   \* number of GET /users/me requests
  fallosPropios,      \* number of failed requests of the outer operation itself
  agotadoEn,          \* outer attempt in which the inner wrapper gave up; 0: none
  errorLanzado,       \* the error the outer wrapper threw
  anidadoPc,          \* "externo" | "interno" | "propio" | "retornado" | "lanzado"
  \* --- ErrorLogger.logTrackNotFound called by the concurrent resolutions of a group
  sinMatch,           \* the tracks of the group for which findBestMatch found no match
  logArchivo,         \* tracks-not-found log file: the tracks of its entries, in order
  logLeido,           \* per track: existingLogs of its writeTrackNotFoundLogEntry call
  logPc,              \* per track: "leer" | "escribir" | "fin"
  \* --- OAuthServer.waitForCallback
  resolved,           \* the flag resolved of waitForCallback
  servidor,           \* this.server: "creado" | "null"
  temporizador,       \* the timeout timer: "pendiente" | "disparado" | "cancelado"
  asentamientos,      \* the resolve and reject calls made on the promise, in order
  respuestasHttp,     \* the status codes of the responses sent, in order
  historial           \* the events that occurred, in order

planVars  == <<spotifyPlaylists, tidalPlaylists, comparisons, planPc>>
reintVars == <<configuracion, intento, reintPc, llamadas, dormidos, ultimoError, resultado>>
matchVars == <<numArtists, searchContext, queryIdx, searchAttempts, busquedas, fallidas,
               puntuados, puntuadosTrasAlta, bestMatch, bestConfidence, matchPc,
               notFoundLogged, vistoMax>>
loteVars  == <<ruta, trackIds, loteIdx, peticiones, playlistTidal, esperas, lotePc>>
syncVars  == <<plan, syncIdx, syncPc, summary, result, grupoI, pendientes, matchedTrackIds,
               origenMatched, errorsCreate, tracksUpd, trackIdx, foundTrackIds,
               failedTracksUpd, limpiezaFallida, escritos, conLlamadas, lanzado, authVisto,
               ultimaResolucion, resueltaCreate>>
appVars   == <<appPc, maxRetries, totalApp, corrida, state, shutdownRequested, archivo,
               archivoAlInicio, authAttempt, authFase, opAttempt, invocaciones,
               ultimaEspera, sincronizadas, salida, salidaPrevia>>
textoVars == <<texto, normalizado, renormalizado, fuente, candidato, similitud,
               consultasTexto, mejorTexto, textoPc>>
grupoVars == <<pistas, grupoDesde, enVuelo, iniciadas, asentadas, exitosas, demoras,
               gruposPc>>
limpiarVars == <<contenido, idsLeidos, limpiarIdx, borrados, limpiarIntento, limpiarPc>>
duracionVars == <<duracionesA, duracionesB, similitudA, similitudB, duracionPc>>
anidadoVars == <<cfgAnidado, externoIntento, internoIntento, invocacionesExternas,
               llamadasInternas, fallosPropios, agotadoEn, errorLanzado, anidadoPc>>
registroVars == <<sinMatch, logArchivo, logLeido, logPc>>
oauthVars == <<resolved, servidor, temporizador, asentamientos, respuestasHttp,
               historial>>
vars      == <<planVars, reintVars, matchVars, loteVars, syncVars, appVars, textoVars,
               grupoVars, limpiarVars, duracionVars, anidadoVars, registroVars,
               oauthVars>>

\* an action of one subsystem leaves the other subsystems alone
SoloPlan  == UNCHANGED <<reintVars, matchVars, loteVars, syncVars, appVars, textoVars,
               grupoVars, limpiarVars, duracionVars, anidadoVars, registroVars,
               oauthVars>>

SoloReint == UNCHANGED <<planVars, matchVars, loteVars, syncVars, appVars, textoVars,
               grupoVars, limpiarVars, duracionVars, anidadoVars, registroVars,
               oauthVars>>

SoloMatch == UNCHANGED <<planVars, reintVars, loteVars, syncVars, appVars, textoVars,
               grupoVars, limpiarVars, duracionVars, anidadoVars, registroVars,
               oauthVars>>

SoloLote  == UNCHANGED <<planVars, reintVars, matchVars, syncVars, appVars, textoVars,
               grupoVars, limpiarVars, duracionVars, anidadoVars, registroVars,
               oauthVars>>

SoloSync  == UNCHANGED <<planVars, reintVars, matchVars, loteVars, appVars, textoVars,
               grupoVars, limpiarVars, duracionVars, anidadoVars, registroVars,
               oauthVars>>

SoloApp   == UNCHANGED <<planVars, reintVars, matchVars, loteVars, syncVars, textoVars,
               grupoVars, limpiarVars, duracionVars, anidadoVars, registroVars,
               oauthVars>>

SoloTexto == UNCHANGED <<planVars, reintVars, matchVars, loteVars, syncVars, appVars,
               grupoVars, limpiarVars, duracionVars, anidadoVars, registroVars,
               oauthVars>>

SoloGrupo == UNCHANGED <<planVars, reintVars, matchVars, loteVars, syncVars, appVars,
               textoVars, limpiarVars, duracionVars, anidadoVars, registroVars,
               oauthVars>>

SoloLimpiar == UNCHANGED <<planVars, reintVars, matchVars, loteVars, syncVars, appVars,
               textoVars, grupoVars, duracionVars, anidadoVars, registroVars, oauthVars>>

SoloDuracion == UNCHANGED <<planVars, reintVars, matchVars, loteVars, syncVars, appVars,
               textoVars, grupoVars, limpiarVars, anidadoVars, registroVars, oauthVars>>

SoloAnidado == UNCHANGED <<planVars, reintVars, matchVars, loteVars, syncVars, appVars,
               textoVars, grupoVars, limpiarVars, duracionVars, registroVars, oauthVars>>

SoloRegistro == UNCHANGED <<planVars, reintVars, matchVars, loteVars, syncVars, appVars,
               textoVars, grupoVars, limpiarVars, duracionVars, anidadoVars, oauthVars>>

SoloOAuth == UNCHANGED <<planVars, reintVars, matchVars, loteVars, syncVars, appVars,
               textoVars, grupoVars, limpiarVars, duracionVars, anidadoVars,
               registroVars>>

\* ------------------------------------------------------------------ helpers

Min(a, b) == IF a <= b THEN a ELSE b

Max(a, b) == IF a >= b THEN a ELSE b

\* All sequences over S of length 0..n
SeqsUpTo(S, n) == UNION {[1..k -> S] : k \in 0..n}

RECURSIVE Pow(_, _)
Pow(b, e) == IF e = 0 THEN 1 ELSE b * Pow(b, e - 1)

\* ======================================================================
\* Planner: PlaylistSyncManager.comparePlaylistsForSync
\* ======================================================================

MaxRoster == 2

MaxSource == 1

\* Strings are sequences of one-character strings.
Names == { <<"a">>, <<" ", "A">>, <<"A", " ">>, <<"b">> }

TrackCounts == {0, 5, 10}

Mayusculas ==
  << "A", "B", "C", "D", "E", "F", "G", "H", "I", "J", "K", "L", "M",
     "N", "O", "P", "Q", "R", "S", "T", "U", "V", "W", "X", "Y", "Z" >>

Minusculas ==
  << "a", "b", "c", "d", "e", "f", "g", "h", "i", "j", "k", "l", "m",
     "n", "o", "p", "q", "r", "s", "t", "u", "v", "w", "x", "y", "z" >>

\* String.prototype.toLowerCase, per character
LowerChar(c) ==
  IF \E i \in 1..Len(Mayusculas) : Mayusculas[i] = c
  THEN Minusculas[CHOOSE i \in 1..Len(Mayusculas) : Mayusculas[i] = c]
  ELSE c

ToLowerCase(s) == [i \in 1..Len(s) |-> LowerChar(s[i])]

\* white space of String.prototype.trim and of the class \s
IsSpace(c) == c \in {" ", "\t"}

RECURSIVE TrimLeft(_)
TrimLeft(s) == IF s # <<>> /\ IsSpace(Head(s)) THEN TrimLeft(Tail(s)) ELSE s

RECURSIVE TrimRight(_)
TrimRight(s) ==
  IF s # <<>> /\ IsSpace(s[Len(s)]) THEN TrimRight(SubSeq(s, 1, Len(s) - 1)) ELSE s

\* String.prototype.trim
Trim(s) == TrimRight(TrimLeft(s))

\* name.toLowerCase().trim()
NameKey(s) == Trim(ToLowerCase(s))

\* Array.prototype.find: index of the first element satisfying the test, 0 if none
FindMatching(name, tidal) ==
  LET hits == {i \in 1..Len(tidal) : NameKey(tidal[i].title) = NameKey(name)}
  IN IF hits = {} THEN 0 ELSE CHOOSE i \in hits : \A j \in hits : i <= j

NoPlaylist == [uuid |-> 0]

\* faulty variant of NeedsUpdate: <= in place of <
PlanMutNeedsUpdateLeq(t, p) == t.numberOfTracks <= p.totalTracks

\* matchingTidalPlaylist.numberOfTracks < spotifyPlaylist.totalTracks
NeedsUpdate(t, p) == t.numberOfTracks < p.totalTracks

\* One iteration of the for loop of comparePlaylistsForSync
ComparePlaylist(p, tidal) ==
  IF p.totalTracks = 0
  THEN [spotifyPlaylist |-> p, tidalPlaylist |-> NoPlaylist, action |-> "skip",
        reason |-> "Playlist is empty"]
  ELSE LET m == FindMatching(p.name, tidal)
       IN IF m # 0
          THEN IF NeedsUpdate(tidal[m], p)
               THEN [spotifyPlaylist |-> p, tidalPlaylist |-> tidal[m],
                     action |-> "update", reason |-> "Tidal playlist has fewer tracks"]
               ELSE [spotifyPlaylist |-> p, tidalPlaylist |-> tidal[m],
                     action |-> "skip", reason |-> "Tidal playlist appears to be up to date"]
          ELSE [spotifyPlaylist |-> p, tidalPlaylist |-> NoPlaylist, action |-> "create",
                reason |-> "Playlist does not exist in Tidal"]

SpotifyPlaylistValues == [name : Names, totalTracks : TrackCounts]

TidalAttrs == [title : Names, numberOfTracks : TrackCounts]

\* A roster: every playlist has its own uuid (here its position)
WithUuids(s) ==
  [i \in 1..Len(s) |->
     [uuid |-> i, title |-> s[i].title, numberOfTracks |-> s[i].numberOfTracks]]

PlanInit ==
  /\ spotifyPlaylists \in SeqsUpTo(SpotifyPlaylistValues, MaxSource)
  /\ tidalPlaylists \in {WithUuids(s) : s \in SeqsUpTo(TidalAttrs, MaxRoster)}
  /\ comparisons = <<>>
  /\ planPc = "start"

PlanIdle ==
  /\ spotifyPlaylists = <<>>
  /\ tidalPlaylists = <<>>
  /\ comparisons = <<>>
  /\ planPc = "idle"

\* comparePlaylistsForSync: the whole loop, one comparison per source playlist
ComparePlaylistsForSync ==
  /\ SoloPlan
  /\ planPc = "start"
  /\ comparisons' = [i \in 1..Len(spotifyPlaylists) |->
                       ComparePlaylist(spotifyPlaylists[i], tidalPlaylists)]
  /\ planPc' = "done"
  /\ UNCHANGED <<spotifyPlaylists, tidalPlaylists>>

PlanNext == ComparePlaylistsForSync

\* ----------------------------------------------------------------------
\* C1: for every source playlist p and roster T the planner's decision is
\* 'skip' when p.totalTracks = 0; otherwise 'create' when no destination
\* title equals p.name after lower-casing and trimming both; otherwise, with
\* the first such destination playlist in roster order, 'update' when its
\* numberOfTracks < p.totalTracks and 'skip' when it is >=.
C1_SameName(a, b) == Trim(ToLowerCase(a)) = Trim(ToLowerCase(b))

C1_Matches(p) == {j \in 1..Len(tidalPlaylists) : C1_SameName(tidalPlaylists[j].title, p.name)}

C1_First(p) == CHOOSE j \in C1_Matches(p) : \A k \in C1_Matches(p) : j <= k

C1_Expected(p) ==
  IF p.totalTracks = 0 THEN "skip"
  ELSE IF C1_Matches(p) = {} THEN "create"
  ELSE IF tidalPlaylists[C1_First(p)].numberOfTracks < p.totalTracks THEN "update"
  ELSE "skip"

C1_PlannerDecision ==
  planPc = "done" =>
    /\ Len(comparisons) = Len(spotifyPlaylists)
    /\ \A i \in 1..Len(comparisons) :
         LET p == spotifyPlaylists[i]
             c == comparisons[i]
         IN /\ c.spotifyPlaylist = p
            /\ c.action = C1_Expected(p)
            /\ c.action = "update" =>
                 /\ C1_Matches(p) # {}
                 /\ c.tidalPlaylist = tidalPlaylists[C1_First(p)]
                 /\ c.tidalPlaylist.numberOfTracks < p.totalTracks
            /\ c.action = "create" => C1_Matches(p) = {}

\* an update decided on a name that differs in case and whitespace, with a
\* second, later name match that has more tracks than the source
C1_Witness ==
  /\ planPc = "done"
  /\ Len(comparisons) = 1
  /\ comparisons[1].action = "update"
  /\ comparisons[1].tidalPlaylist.title # spotifyPlaylists[1].name
  /\ Cardinality(C1_Matches(spotifyPlaylists[1])) = 2
  /\ tidalPlaylists[2].numberOfTracks >= spotifyPlaylists[1].totalTracks

\* ======================================================================
\* Retry wrapper: ManejadorErrores.ejecutarConReintento
\* ======================================================================

\* largest maxReintentos explored (the default configuration has 3)
MaxIntentos == 3

\* Math.random() takes the values k / RandDen, k in 0..RandDen-1
RandDen == 2

\* CONFIGURACION_REINTENTO_PREDETERMINADA
RetrasoBase == 1000

RetrasoMaximo == 30000

\* a retrasoMaximo that the second delay of the default progression exceeds
RetrasoMaximoCorto == 1500

MultiplicadorRetroceso == 2

\* delay of a 429 without a usable retry-after header
RetrasoLimitePredeterminado == 5000

Servicio == "tidal"

NoError == [name |-> "ninguno"]

NoResultado == [tipo |-> "ninguno"]

\* retry-after headers: absent, "2", "abc"
RetryAfterHeaders ==
  { [presente |-> FALSE, numerico |-> FALSE, segundos |-> 0],
    [presente |-> TRUE,  numerico |-> TRUE,  segundos |-> 2],
    [presente |-> TRUE,  numerico |-> FALSE, segundos |-> 0] }

SinHeader == [presente |-> FALSE, numerico |-> FALSE, segundos |-> 0]

\* What operacion can throw.  estado = 0: an axios error without a response.
ErroresCrudos ==
       {[tipo |-> "axios", estado |-> 429, retryAfter |-> h, oauth |-> FALSE, codigoRed |-> FALSE]
          : h \in RetryAfterHeaders}
  \cup {[tipo |-> "axios", estado |-> s, retryAfter |-> SinHeader, oauth |-> FALSE, codigoRed |-> FALSE]
          : s \in {0, 401, 403, 400, 404, 500, 503, 304}}
  \cup {[tipo |-> "axios", estado |-> 400, retryAfter |-> SinHeader, oauth |-> TRUE, codigoRed |-> FALSE]}
  \cup {[tipo |-> "error", estado |-> 0, retryAfter |-> SinHeader, oauth |-> FALSE, codigoRed |-> b]
          : b \in BOOLEAN}
  \cup {[tipo |-> "otro", estado |-> 0, retryAfter |-> SinHeader, oauth |-> FALSE, codigoRed |-> FALSE]}
       \* an ErrorSpotifyTidal thrown by a nested ejecutarConReintento that gave up
  \cup {[tipo |-> "clasificado", estado |-> 0, retryAfter |-> SinHeader, oauth |-> FALSE, codigoRed |-> FALSE]}

Valores == {"v1", "v2"}

Exitos == {[tipo |-> "exito", valor |-> v] : v \in Valores}

\* new ErrorSpotifyTidal(mensaje, codigo, errorOriginal, reintentar) and subclasses;
\* intentos: the attempt count carried by the message of the final error (0: none)
ErrorClasificado(name, codigo, reintentar, despues) ==
  [name |-> name, codigo |-> codigo, reintentar |-> reintentar,
   reintentarDespues |-> despues, intentos |-> 0, envuelto |-> FALSE]

CodigoServicio(prefijo, servicio) ==
  CASE prefijo = "ERROR_AUTH" /\ servicio = "tidal" -> "ERROR_AUTH_TIDAL"
    [] prefijo = "ERROR_AUTH" /\ servicio = "spotify" -> "ERROR_AUTH_SPOTIFY"
    [] prefijo = "LIMITE_VELOCIDAD" /\ servicio = "tidal" -> "LIMITE_VELOCIDAD_TIDAL"
    [] prefijo = "LIMITE_VELOCIDAD" /\ servicio = "spotify" -> "LIMITE_VELOCIDAD_SPOTIFY"
    [] prefijo = "SERVICIO_NO_DISPONIBLE" /\ servicio = "tidal" -> "SERVICIO_NO_DISPONIBLE_TIDAL"
    [] OTHER -> "SERVICIO_NO_DISPONIBLE_SPOTIFY"

CodigoEstado(prefijo, estado) ==
  CASE prefijo = "ERROR_CLIENTE" /\ estado = 400 -> "ERROR_CLIENTE_400"
    [] prefijo = "ERROR_CLIENTE" /\ estado = 404 -> "ERROR_CLIENTE_404"
    [] prefijo = "ERROR_CLIENTE" -> "ERROR_CLIENTE_4xx"
    [] estado = 304 -> "ERROR_HTTP_304"
    [] OTHER -> "ERROR_HTTP_xxx"

\* faulty variant of ObtenerRetrasoReintentarDespues: seconds are not converted
ReintMutSinConversion(h) ==
  IF h.presente /\ h.numerico THEN h.segundos ELSE RetrasoLimitePredeterminado

\* obtenerRetrasoReintentarDespues: parseInt(header) * 1000, or 5000
ObtenerRetrasoReintentarDespues(h) ==
  IF h.presente /\ h.numerico THEN h.segundos * 1000 ELSE RetrasoLimitePredeterminado

\* faulty variant of EsErrorServidor: every status from 400 on is a server error
ReintMutServidorDesde400(estado) == estado >= 400

\* estado && estado >= 500
EsErrorServidor(estado) == estado >= 500

ClasificarErrorAxios(e, servicio) ==
  IF e.estado = 0 THEN ErrorClasificado("ErrorRed", "ERROR_RED", TRUE, 0)
  ELSE IF e.estado = 429
    THEN ErrorClasificado("ErrorLimiteVelocidad", CodigoServicio("LIMITE_VELOCIDAD", servicio),
                          TRUE, ObtenerRetrasoReintentarDespues(e.retryAfter))
  ELSE IF e.estado = 401 \/ e.estado = 403
    THEN ErrorClasificado("ErrorAutenticacion", CodigoServicio("ERROR_AUTH", servicio), FALSE, 0)
  ELSE IF e.estado = 400 /\ e.oauth
    THEN ErrorClasificado("ErrorAutenticacion", CodigoServicio("ERROR_AUTH", servicio), FALSE, 0)
  ELSE IF EsErrorServidor(e.estado)
    THEN ErrorClasificado("ErrorServicioNoDisponible",
                          CodigoServicio("SERVICIO_NO_DISPONIBLE", servicio), TRUE, 0)
  ELSE IF e.estado >= 400 /\ e.estado < 500
    THEN ErrorClasificado("ErrorSpotifyTidal", CodigoEstado("ERROR_CLIENTE", e.estado), FALSE, 0)
  ELSE ErrorClasificado("ErrorSpotifyTidal", CodigoEstado("ERROR_HTTP", e.estado),
                        e.estado >= 500, 0)

\* the ErrorSpotifyTidal a nested ejecutarConReintento throws once it has given up
\* on a network error
ErrorAnidado ==
  [name |-> "ErrorSpotifyTidal", codigo |-> "ERROR_RED", reintentar |-> FALSE,
   reintentarDespues |-> 0, intentos |-> 3, envuelto |-> TRUE]

ClasificarError(e, servicio) ==
  IF e.tipo = "clasificado" THEN ErrorAnidado
  ELSE IF e.tipo = "axios" THEN ClasificarErrorAxios(e, servicio)
  ELSE IF e.tipo = "error"
    THEN IF e.codigoRed THEN ErrorClasificado("ErrorRed", "ERROR_RED", TRUE, 0)
         ELSE ErrorClasificado("ErrorSpotifyTidal", "ERROR_DESCONOCIDO", FALSE, 0)
  ELSE ErrorClasificado("ErrorSpotifyTidal", "ERROR_DESCONOCIDO", FALSE, 0)

\* faulty variant of CalcularRetrasoRetroceso: the cap at retrasoMaximo is missing
ReintMutSinTope(n, cfg, k) ==
  LET crudo == cfg.retrasoBase * Pow(cfg.multiplicadorRetroceso, n - 1)
  IN IF cfg.variacion THEN (crudo * (RandDen + k)) \div (2 * RandDen) ELSE crudo

\* calcularRetrasoRetroceso, with Math.random() = k / RandDen
CalcularRetrasoRetroceso(n, cfg, k) ==
  LET crudo  == cfg.retrasoBase * Pow(cfg.multiplicadorRetroceso, n - 1)
      tope   == Min(crudo, cfg.retrasoMaximo)
  IN IF cfg.variacion
     THEN (tope * (RandDen + k)) \div (2 * RandDen)
     ELSE tope

\* faulty variant of EsReintentable: the reintentar flag is ignored
ReintMutSiempreReintentable(e) == TRUE

\* !ultimoError.reintentar is the test for the immediate throw
EsReintentable(e) == e.reintentar

\* faulty variant of EsUltimoIntento: the break on the last attempt is missing
ReintMutNuncaUltimo(n, cfg) == FALSE

\* intento === this.configuracion.maxReintentos
EsUltimoIntento(n, cfg) == n = cfg.maxReintentos

\* faulty variant of ErrorFinal: the error thrown after the loop keeps the
\* reintentar flag of the last error
AnidadoMutFinalReintentable(cfg, ultimo) ==
  IF ultimo = NoError
  THEN [name |-> "ErrorSpotifyTidal", codigo |-> "ERROR_DESCONOCIDO", reintentar |-> FALSE,
        reintentarDespues |-> 0, intentos |-> cfg.maxReintentos, envuelto |-> FALSE]
  ELSE [name |-> "ErrorSpotifyTidal", codigo |-> ultimo.codigo,
        reintentar |-> ultimo.reintentar,
        reintentarDespues |-> 0, intentos |-> cfg.maxReintentos, envuelto |-> TRUE]

\* the error thrown after the loop
ErrorFinal(cfg, ultimo) ==
  IF ultimo = NoError
  THEN [name |-> "ErrorSpotifyTidal", codigo |-> "ERROR_DESCONOCIDO", reintentar |-> FALSE,
        reintentarDespues |-> 0, intentos |-> cfg.maxReintentos, envuelto |-> FALSE]
  ELSE [name |-> "ErrorSpotifyTidal", codigo |-> ultimo.codigo, reintentar |-> FALSE,
        reintentarDespues |-> 0, intentos |-> cfg.maxReintentos, envuelto |-> TRUE]

Configuraciones ==
  [maxReintentos : 1..MaxIntentos, retrasoBase : {RetrasoBase},
   retrasoMaximo : {RetrasoMaximo, RetrasoMaximoCorto}, multiplicadorRetroceso : {MultiplicadorRetroceso},
   variacion : BOOLEAN]

ReintInit ==
  /\ configuracion \in Configuraciones
  /\ intento = 1
  /\ reintPc = "invocar"
  /\ llamadas = <<>>
  /\ dormidos = <<>>
  /\ ultimoError = NoError
  /\ resultado = NoResultado

ReintIdle ==
  /\ configuracion = [maxReintentos |-> 0]
  /\ intento = 0
  /\ reintPc = "idle"
  /\ llamadas = <<>>
  /\ dormidos = <<>>
  /\ ultimoError = NoError
  /\ resultado = NoResultado

\* faulty variant of RetornarExito: await operacion() without the return
ReintMutSinReturn(o) ==
  /\ reintPc' = "invocar"
  /\ intento' = intento + 1
  /\ UNCHANGED <<resultado, ultimoError, dormidos>>

\* return await operacion();
RetornarExito(o) ==
  /\ reintPc' = "retornado"
  /\ resultado' = [tipo |-> "valor", valor |-> o.valor]
  /\ UNCHANGED <<intento, ultimoError, dormidos>>

\* the catch block of one iteration
ManejarFallo(o) ==
  LET e == ClasificarError(o, Servicio)
  IN /\ ultimoError' = e
     /\ IF ~EsReintentable(e)
        THEN /\ reintPc' = "lanzado"
             /\ resultado' = [tipo |-> "error", error |-> e]
             /\ UNCHANGED <<intento, dormidos>>
        ELSE IF EsUltimoIntento(intento, configuracion)
        THEN /\ reintPc' = "lanzado"
             /\ resultado' = [tipo |-> "error", error |-> ErrorFinal(configuracion, e)]
             /\ UNCHANGED <<intento, dormidos>>
        ELSE /\ \E k \in 0..(RandDen - 1) :
                  dormidos' = Append(dormidos,
                     IF e.name = "ErrorLimiteVelocidad" THEN e.reintentarDespues
                     ELSE CalcularRetrasoRetroceso(intento, configuracion, k))
             /\ reintPc' = "dormir"
             /\ UNCHANGED <<intento, resultado>>

\* one iteration of the for loop: operacion is invoked and succeeds or throws
Invocar ==
  /\ SoloReint
  /\ reintPc = "invocar"
  /\ intento <= configuracion.maxReintentos
  /\ \E o \in Exitos \cup ErroresCrudos :
       /\ llamadas' = Append(llamadas, o)
       /\ IF o.tipo = "exito" THEN RetornarExito(o) ELSE ManejarFallo(o)
  /\ UNCHANGED configuracion

\* await this.dormir(retraso) completes; intento++ and the loop test
Dormir ==
  /\ SoloReint
  /\ reintPc = "dormir"
  /\ intento' = intento + 1
  /\ IF intento + 1 <= configuracion.maxReintentos
     THEN /\ reintPc' = "invocar"
          /\ UNCHANGED resultado
     ELSE /\ reintPc' = "lanzado"
          /\ resultado' = [tipo |-> "error", error |-> ErrorFinal(configuracion, ultimoError)]
  /\ UNCHANGED <<configuracion, llamadas, dormidos, ultimoError>>

ReintNext == Invocar \/ Dormir

\* ======================================================================
\* Resolver: SongMatcher.findBestMatch
\* ======================================================================

MaxArtists == 2

\* largest number of items in one search result
MaxResultados == 2

SIMILARITY_THRESHOLD == 700

HIGH_CONFIDENCE_THRESHOLD == 900

\* weights of calculateSimilarity, in thousandths
PesoTitulo == 400

PesoArtista == 400

PesoAlbum == 150

PesoDuracion == 50

NoTrack == [id |-> 0]

\* Candidates of the Tidal catalog.  Each carries the four similarities
\* (thousandths) that calculateStringSimilarity, calculateArtistSimilarity and
\* calculateDurationSimilarity give for it against the Spotify track.
TidalTracks ==
  { [id |-> 2, titulo |-> 875,  artista |-> 1000, album |-> 1000, duracion |-> 1000],
    [id |-> 3, titulo |-> 750,  artista |-> 1000, album |-> 1000, duracion |-> 1000],
    [id |-> 4, titulo |-> 1000, artista |-> 1000, album |-> 0,    duracion |-> 1000],
    [id |-> 5, titulo |-> 1000, artista |-> 250,  album |-> 1000, duracion |-> 1000],
    [id |-> 6, titulo |-> 1000, artista |-> 0,    album |-> 1000, duracion |-> 1000],
    [id |-> 7, titulo |-> 625,  artista |-> 1000, album |-> 1000, duracion |-> 1000] }

\* the weighted sum of calculateSimilarity, clamped to [0, 1]
CalculateSimilarity(t) ==
  LET total == (t.titulo * PesoTitulo + t.artista * PesoArtista
                + t.album * PesoAlbum + t.duracion * PesoDuracion) \div 1000
  IN Min(1000, Max(0, total))

\* faulty variant of GenerateSearchQueries: the primary artist is among the
\* alternative artists (slice(0) for slice(1))
MatchMutAlternosTodos(n) ==
  << [estrategia |-> 1, artista |-> 1],
     [estrategia |-> 2, artista |-> 1],
     [estrategia |-> 3, artista |-> 1] >>
  \o (IF n > 1 THEN << [estrategia |-> 4, artista |-> 0] >> ELSE <<>>)
  \o (IF n > 1 THEN [i \in 1..n |-> [estrategia |-> 5, artista |-> i]] ELSE <<>>)

\* generateSearchQueries: the strategies, in order; artista is the index of the
\* artist the query names (0: all artists joined)
GenerateSearchQueries(n) ==
  << [estrategia |-> 1, artista |-> 1],
     [estrategia |-> 2, artista |-> 1],
     [estrategia |-> 3, artista |-> 1] >>
  \o (IF n > 1 THEN << [estrategia |-> 4, artista |-> 0] >> ELSE <<>>)
  \o (IF n > 1 THEN [i \in 1..(n - 1) |-> [estrategia |-> 5, artista |-> i + 1]] ELSE <<>>)

\* faulty variant of AceptaCandidato: a candidate that ties with the best replaces it
MatchMutEmpateUltimo(confidence, best) ==
  confidence >= best /\ confidence >= SIMILARITY_THRESHOLD

\* faulty variant of AceptaCandidato: the threshold test is missing
MatchMutSinUmbral(confidence, best) == confidence > best

\* confidence > bestConfidence && confidence >= this.SIMILARITY_THRESHOLD
AceptaCandidato(confidence, best) ==
  confidence > best /\ confidence >= SIMILARITY_THRESHOLD

\* faulty variant of EsAltaConfianza: the high-confidence breaks are missing
MatchMutNuncaAlta(confidence) == FALSE

\* confidence >= this.HIGH_CONFIDENCE_THRESHOLD (both break tests)
EsAltaConfianza(confidence) == confidence >= HIGH_CONFIDENCE_THRESHOLD

\* the inner for loop over searchResult.tracks.items; acc carries bestMatch,
\* bestConfidence and the counts of candidates scored
RECURSIVE ScoreItems(_, _)
ScoreItems(items, acc) ==
  IF items = <<>> THEN acc
  ELSE LET t == Head(items)
           confidence == CalculateSimilarity(t)
           contado == [acc EXCEPT !.puntuados = @ + 1,
                                  !.trasAlta = @ + (IF acc.conf >= HIGH_CONFIDENCE_THRESHOLD
                                                    THEN 1 ELSE 0)]
       IN IF AceptaCandidato(confidence, acc.conf)
          THEN LET mejor == [contado EXCEPT !.best = t, !.conf = confidence]
               IN IF EsAltaConfianza(confidence) THEN mejor
                  ELSE ScoreItems(Tail(items), mejor)
          ELSE ScoreItems(Tail(items), contado)

NadaVisto == [max |-> -1, primero |-> NoTrack, otros |-> {}]

\* history of the items returned by the searches: the largest score among
\* them, the first item that has it and the ids of the later items that have it
RECURSIVE MaximoVisto(_, _)
MaximoVisto(items, acc) ==
  IF items = <<>> THEN acc
  ELSE LET t == Head(items)
           c == CalculateSimilarity(t)
       IN MaximoVisto(Tail(items),
            IF c > acc.max THEN [max |-> c, primero |-> t, otros |-> {}]
            ELSE IF c = acc.max /\ t # acc.primero
                 THEN [acc EXCEPT !.otros = @ \cup {t.id}]
            ELSE acc)

\* what searchTrack gives for one query: it throws (retries exhausted, or a
\* response without tracks.items) or returns the items
ResultadosBusqueda ==
  {[lanza |-> TRUE, items |-> <<>>]}
  \cup {[lanza |-> FALSE, items |-> s] : s \in SeqsUpTo(TidalTracks, MaxResultados)}

MatchInit ==
  /\ numArtists \in 1..MaxArtists
  /\ searchContext \in BOOLEAN
  /\ queryIdx = 0
  /\ searchAttempts = <<>>
  /\ busquedas = 0
  /\ fallidas = 0
  /\ puntuados = 0
  /\ puntuadosTrasAlta = 0
  /\ bestMatch = NoTrack
  /\ bestConfidence = 0
  /\ matchPc = "loop"
  /\ notFoundLogged = FALSE
  /\ vistoMax = NadaVisto

MatchIdle ==
  /\ numArtists = 0
  /\ searchContext = FALSE
  /\ queryIdx = 0
  /\ searchAttempts = <<>>
  /\ busquedas = 0
  /\ fallidas = 0
  /\ puntuados = 0
  /\ puntuadosTrasAlta = 0
  /\ bestMatch = NoTrack
  /\ bestConfidence = 0
  /\ matchPc = "idle"
  /\ notFoundLogged = FALSE
  /\ vistoMax = NadaVisto

\* for (const query of searchQueries): the pc after an iteration that did not break
SiguienteConsulta(idx) ==
  IF idx < Len(GenerateSearchQueries(numArtists)) THEN "loop" ELSE "salir"

\* faulty variant of CatchBusqueda: the error of a search is rethrown
MatchMutPropagaFallo ==
  /\ matchPc' = "thrown"
  /\ UNCHANGED <<bestMatch, bestConfidence, puntuados, puntuadosTrasAlta>>

\* catch (error) { lastError = ...; console.warn(...) } and on to the next query
CatchBusqueda ==
  /\ matchPc' = SiguienteConsulta(queryIdx + 1)
  /\ UNCHANGED <<bestMatch, bestConfidence, puntuados, puntuadosTrasAlta>>

\* one iteration of the loop over searchQueries
Buscar ==
  /\ SoloMatch
  /\ matchPc = "loop"
  /\ queryIdx < Len(GenerateSearchQueries(numArtists))
  /\ queryIdx' = queryIdx + 1
  /\ searchAttempts' = Append(searchAttempts, GenerateSearchQueries(numArtists)[queryIdx + 1])
  /\ busquedas' = busquedas + 1
  /\ \E r \in ResultadosBusqueda :
       IF r.lanza
       THEN /\ fallidas' = fallidas + 1
            /\ vistoMax' = vistoMax
            /\ CatchBusqueda
       ELSE LET acc == ScoreItems(r.items,
                         [best |-> bestMatch, conf |-> bestConfidence,
                          puntuados |-> puntuados, trasAlta |-> puntuadosTrasAlta])
            IN /\ bestMatch' = acc.best
               /\ bestConfidence' = acc.conf
               /\ puntuados' = acc.puntuados
               /\ puntuadosTrasAlta' = acc.trasAlta
               /\ fallidas' = fallidas
               /\ vistoMax' = MaximoVisto(r.items, vistoMax)
               /\ matchPc' = IF r.items # <<>> /\ EsAltaConfianza(acc.conf)
                             THEN "salir"
                             ELSE SiguienteConsulta(queryIdx + 1)
  /\ UNCHANGED <<numArtists, searchContext, notFoundLogged>>

\* after the loop: log the track when nothing was found, return the MatchResult
Terminar ==
  /\ SoloMatch
  /\ matchPc = "salir"
  /\ notFoundLogged' = (bestMatch = NoTrack /\ searchContext)
  /\ matchPc' = "done"
  /\ UNCHANGED <<numArtists, searchContext, queryIdx, searchAttempts, busquedas, fallidas,
                 puntuados, puntuadosTrasAlta, bestMatch, bestConfidence, vistoMax>>

MatchNext == Buscar \/ Terminar

\* ======================================================================
\* Destination writes: addTracksToTidalPlaylist (create path),
\* updateExistingPlaylist (update path), PlaylistImporter.importPlaylist
\* (import path) and their addTracksInBatches
\* ======================================================================

\* largest number of ids to write
MaxTracks == 41

BATCH_SIZE == 20

\* the delay between two batches, ms
ESPERA_LOTES == 1000

\* Array.prototype.slice(a, b) for 0 <= a <= b, on a 1-based sequence
Slice(s, a, b) == SubSeq(s, a + 1, Min(b, Len(s)))

\* faulty variant of Lote: the slice ends one id early
LoteMutCorto(ids, i) == Slice(ids, i, i + BATCH_SIZE - 1)

\* trackIds.slice(i, i + BATCH_SIZE)
Lote(ids, i) == Slice(ids, i, i + BATCH_SIZE)

LoteInit ==
  /\ ruta \in {"create", "update", "import"}
  /\ trackIds \in {[i \in 1..n |-> i] : n \in 0..MaxTracks}
  /\ loteIdx = 0
  /\ peticiones = <<>>
  /\ playlistTidal = <<>>
  /\ esperas = <<>>
  /\ lotePc = "start"

LoteIdle ==
  /\ ruta = "idle"
  /\ trackIds = <<>>
  /\ loteIdx = 0
  /\ peticiones = <<>>
  /\ playlistTidal = <<>>
  /\ esperas = <<>>
  /\ lotePc = "idle"

\* tidalService.addTracksToPlaylist(playlistId, ids): nothing is sent for an empty
\* list; otherwise one request carries all the ids, and ok tells whether it
\* succeeded (within the retries)
AddTracksToPlaylist(ids, ok) ==
  IF ids = <<>>
  THEN UNCHANGED <<peticiones, playlistTidal>>
  ELSE /\ peticiones' = Append(peticiones, ids)
       /\ playlistTidal' = IF ok THEN playlistTidal \o ids ELSE playlistTidal

\* create path: the write at the end of addTracksToTidalPlaylist; a failure is
\* caught there and turned into failed-track counts
EscribirCreate ==
  /\ SoloLote
  /\ ruta = "create"
  /\ lotePc = "start"
  /\ IF Len(trackIds) > 0
     THEN \E ok \in BOOLEAN :
            /\ AddTracksToPlaylist(trackIds, ok)
            /\ lotePc' = IF ok THEN "done" ELSE "caught"
     ELSE /\ lotePc' = "done"
          /\ UNCHANGED <<peticiones, playlistTidal>>
  /\ UNCHANGED <<ruta, trackIds, loteIdx, esperas>>

\* update path: if (foundTrackIds.length > 0) await this.addTracksInBatches(...)
EscribirUpdate ==
  /\ SoloLote
  /\ ruta = "update"
  /\ lotePc = "start"
  /\ lotePc' = IF Len(trackIds) > 0 THEN "write" ELSE "done"
  /\ UNCHANGED <<ruta, trackIds, loteIdx, peticiones, playlistTidal, esperas>>

\* import path: the same call from PlaylistImporter.importPlaylist
EscribirImport ==
  /\ SoloLote
  /\ ruta = "import"
  /\ lotePc = "start"
  /\ lotePc' = IF Len(trackIds) > 0 THEN "write" ELSE "done"
  /\ UNCHANGED <<ruta, trackIds, loteIdx, peticiones, playlistTidal, esperas>>

\* faulty variant of HaySiguienteLote: the delay follows every chunk
LoteMutEsperaSiempre(i, ids) == TRUE

\* i + BATCH_SIZE < trackIds.length
HaySiguienteLote(i, ids) == i + BATCH_SIZE < Len(ids)

\* faulty variant of CatchLote: the error is logged and the loop goes on
LoteMutTragaError ==
  /\ lotePc' = "write"
  /\ loteIdx' = loteIdx + BATCH_SIZE
  /\ UNCHANGED esperas

\* catch (error) { console.log(...); throw error; }
CatchLote ==
  /\ lotePc' = "thrown"
  /\ UNCHANGED <<loteIdx, esperas>>

\* addTracksInBatches: one iteration of the loop up to its delay
AddTracksInBatchesLote ==
  /\ SoloLote
  /\ lotePc = "write"
  /\ loteIdx < Len(trackIds)
  /\ \E ok \in BOOLEAN :
       /\ AddTracksToPlaylist(Lote(trackIds, loteIdx), ok)
       /\ IF ~ok
          THEN CatchLote
          ELSE IF HaySiguienteLote(loteIdx, trackIds)
          THEN /\ lotePc' = "delay"
               /\ esperas' = Append(esperas, ESPERA_LOTES)
               /\ UNCHANGED loteIdx
          ELSE /\ lotePc' = "done"
               /\ loteIdx' = loteIdx + BATCH_SIZE
               /\ UNCHANGED esperas
  /\ UNCHANGED <<ruta, trackIds>>

\* the delay is over: i += BATCH_SIZE and the next iteration
EsperarEntreLotes ==
  /\ SoloLote
  /\ lotePc = "delay"
  /\ loteIdx' = loteIdx + BATCH_SIZE
  /\ lotePc' = IF loteIdx + BATCH_SIZE < Len(trackIds) THEN "write" ELSE "done"
  /\ UNCHANGED <<ruta, trackIds, peticiones, playlistTidal, esperas>>

LoteNext ==
  \/ EscribirCreate
  \/ EscribirUpdate
  \/ EscribirImport
  \/ AddTracksInBatchesLote
  \/ EsperarEntreLotes

\* ======================================================================
\* Synchronisation run: PlaylistSyncManager.performFullSync with
\* syncPlaylistToTidal, addTracksToTidalPlaylist and updateExistingPlaylist,
\* from the point where both rosters have been fetched and compared
\* ======================================================================

\* largest number of source playlists of a run
MaxPlaylists == 2

\* const batchSize = 10: the tracks of a group are resolved concurrently
batchSize == 10

\* The source playlists of a run.  totalTracks is the count Spotify declares,
\* tracks the number of tracks getAllSpotifyPlaylists loaded (fewer when the
\* load failed or null tracks were filtered out).
SyncSources ==
  { [name |-> <<"a">>, totalTracks |-> 1, tracks |-> 1],
    [name |-> <<"c">>, totalTracks |-> 1, tracks |-> 1],
    [name |-> <<"b">>, totalTracks |-> 2, tracks |-> 2],
    [name |-> <<"b">>, totalTracks |-> 1, tracks |-> 0],
    [name |-> <<"b">>, totalTracks |-> 0, tracks |-> 0] }

\* the destination roster of a run
SyncTidal ==
  << [uuid |-> 1, title |-> <<"a">>, numberOfTracks |-> 0],
     [uuid |-> 2, title |-> <<"c">>, numberOfTracks |-> 1] >>

\* classified errors a remote call can end with once its retries are over
ErroresRemotos == {"ErrorAutenticacion", "ErrorServicioNoDisponible"}

\* outcome of a remote call
ResultadosRemotos == {"ok"} \cup ErroresRemotos

\* What the catalog answers for one source track: the candidates, in order.
SyncRespuestas ==
  LET c(i) == CHOOSE t \in TidalTracks : t.id = i
  IN { <<>>, << c(2) >>, << c(5) >>, << c(6) >>, << c(6), c(2) >> }

\* an entry of a result's errors: the message, the classified error it quotes
\* ("" when none) and the source track it names (0 when none)
Entrada(msg, causa, track) == [msg |-> msg, causa |-> causa, track |-> track]

NoResult == [action |-> "ninguno"]

NoResolucion == [items |-> <<>>, lanza |-> FALSE, elegido |-> 0, track |-> 0]

NoResuelta == [track |-> 0, lanza |-> FALSE, tidalTrack |-> 0, confidence |-> 0]

\* songMatcher.findBestMatch(track) when the catalog answers every query for
\* the track with items
FindBestMatch(items) ==
  ScoreItems(items, [best |-> NoTrack, conf |-> 0, puntuados |-> 0, trasAlta |-> 0])

\* matchResult.tidalTrack && matchResult.confidence > 0.7
AceptaCreate(m) == m.best # NoTrack /\ m.conf > SIMILARITY_THRESHOLD

\* the source tracks (by position) of the group that starts at offset i
Grupo(n, i) == {j \in 1..n : i < j /\ j <= i + batchSize}

SyncInit ==
  /\ plan \in { [i \in 1..Len(s) |-> ComparePlaylist(s[i], SyncTidal)] :
                  s \in SeqsUpTo(SyncSources, MaxPlaylists) }
  /\ syncIdx = 1
  /\ syncPc = "loop"
  /\ summary = [totalPlaylists |-> Len(plan), playlistsCreated |-> 0,
                playlistsUpdated |-> 0, playlistsSkipped |-> 0,
                totalTracksProcessed |-> 0, totalTracksSuccessful |-> 0,
                totalTracksFailed |-> 0, results |-> <<>>]
  /\ result = NoResult
  /\ grupoI = 0
  /\ pendientes = {}
  /\ matchedTrackIds = <<>>
  /\ origenMatched = <<>>
  /\ errorsCreate = <<>>
  /\ tracksUpd = 0
  /\ trackIdx = 1
  /\ foundTrackIds = <<>>
  /\ failedTracksUpd = <<>>
  /\ limpiezaFallida = FALSE
  /\ escritos = <<>>
  /\ conLlamadas = {}
  /\ lanzado = ""
  /\ authVisto = FALSE
  /\ ultimaResolucion = NoResolucion
  /\ resueltaCreate = NoResuelta

SyncIdle ==
  /\ plan = <<>>
  /\ syncIdx = 0
  /\ syncPc = "idle"
  /\ summary = [results |-> <<>>]
  /\ result = NoResult
  /\ grupoI = 0
  /\ pendientes = {}
  /\ matchedTrackIds = <<>>
  /\ origenMatched = <<>>
  /\ errorsCreate = <<>>
  /\ tracksUpd = 0
  /\ trackIdx = 0
  /\ foundTrackIds = <<>>
  /\ failedTracksUpd = <<>>
  /\ limpiezaFallida = FALSE
  /\ escritos = <<>>
  /\ conLlamadas = {}
  /\ lanzado = ""
  /\ authVisto = FALSE
  /\ ultimaResolucion = NoResolucion
  /\ resueltaCreate = NoResuelta

\* the locals of syncPlaylistToTidal, addTracksToTidalPlaylist and
\* updateExistingPlaylist are gone once the method has returned
SinLocales ==
  /\ grupoI' = 0
  /\ pendientes' = {}
  /\ matchedTrackIds' = <<>>
  /\ origenMatched' = <<>>
  /\ errorsCreate' = <<>>
  /\ tracksUpd' = 0
  /\ trackIdx' = 1
  /\ foundTrackIds' = <<>>
  /\ failedTracksUpd' = <<>>

\* the end of one iteration of performFullSync's loop: the counter of the
\* switch case, summary.results.push(result) and the three totals
Registrar(r, contador) ==
  /\ result' = r
  /\ summary' = [summary EXCEPT
                   ![contador] = @ + 1,
                   !.results = Append(@, r),
                   !.totalTracksProcessed = @ + r.totalTracks,
                   !.totalTracksSuccessful = @ + r.successfulTracks,
                   !.totalTracksFailed = @ + r.failedTracks]
  /\ syncIdx' = syncIdx + 1
  /\ syncPc' = "loop"
  /\ SinLocales

\* a remote call of the playlist at syncIdx ended with outcome o
Llamada(o) ==
  /\ conLlamadas' = conLlamadas \cup {syncIdx}
  /\ authVisto' = (authVisto \/ o = "ErrorAutenticacion")

\* what is remembered of the playlist processed before is dropped
NuevaPlaylist ==
  /\ limpiezaFallida' = FALSE
  /\ escritos' = <<>>
  /\ ultimaResolucion' = NoResolucion
  /\ resueltaCreate' = NoResuelta

\* faulty variant of CatchCrear: the error of createPlaylist is rethrown and
\* reaches the catch of performFullSync
SyncMutCrearPropaga(r, o) ==
  /\ result' = r
  /\ syncPc' = "thrown"
  /\ SinLocales
  /\ UNCHANGED <<summary, syncIdx>>

\* syncPlaylistToTidal: catch (error) { errors.push(...); action = 'skipped' }
CatchCrear(r, o) ==
  Registrar([r EXCEPT !.errors = Append(@, Entrada("Failed to create playlist", o, 0)),
                      !.action = "skipped"],
            "playlistsCreated")

\* case 'skip' of performFullSync
ProcesarSkip ==
  /\ SoloSync
  /\ syncPc = "loop"
  /\ syncIdx <= Len(plan)
  /\ plan[syncIdx].action = "skip"
  /\ Registrar([playlistName |-> plan[syncIdx].spotifyPlaylist.name,
                action |-> "skipped",
                totalTracks |-> plan[syncIdx].spotifyPlaylist.totalTracks,
                successfulTracks |-> 0,
                failedTracks |-> 0,
                errors |-> << Entrada(plan[syncIdx].reason, "", 0) >>],
               "playlistsSkipped")
  /\ NuevaPlaylist
  /\ lanzado' = ""
  /\ UNCHANGED <<plan, conLlamadas, authVisto>>

\* case 'create': syncPlaylistToTidal up to the end of createPlaylist
CrearPlaylist ==
  /\ SoloSync
  /\ syncPc = "loop"
  /\ syncIdx <= Len(plan)
  /\ plan[syncIdx].action = "create"
  /\ LET p == plan[syncIdx].spotifyPlaylist
         r == [playlistName |-> p.name, action |-> "created", totalTracks |-> p.tracks,
               successfulTracks |-> 0, failedTracks |-> 0, errors |-> <<>>]
     IN \E o \in ResultadosRemotos :
          /\ Llamada(o)
          /\ lanzado' = (IF o = "ok" THEN "" ELSE o)
          /\ IF o # "ok" THEN CatchCrear(r, o)
             ELSE IF p.tracks = 0 THEN Registrar(r, "playlistsCreated")
             ELSE /\ result' = r
                  /\ syncPc' = "grupo"
                  /\ pendientes' = Grupo(p.tracks, 0)
                  /\ UNCHANGED <<summary, syncIdx, grupoI, matchedTrackIds, origenMatched,
                                 errorsCreate, tracksUpd, trackIdx, foundTrackIds,
                                 failedTracksUpd>>
  /\ NuevaPlaylist
  /\ UNCHANGED plan

\* addTracksToTidalPlaylist: one of the concurrent promises of the group
\* completes.  findBestMatch catches the failures of its own searches; it
\* throws (lanza) only outside its loop, for a track it cannot build queries
\* for, and the catch of the promise counts the track as failed.  The last
\* promise of a group resolves Promise.all: the next group starts after the
\* delay, or the loop is over and the method returns when no id was matched.
ResolverCreate ==
  /\ SoloSync
  /\ syncPc = "grupo"
  /\ \E j \in pendientes, items \in SyncRespuestas, lanza \in BOOLEAN :
       LET m == FindBestMatch(items)
           n == plan[syncIdx].spotifyPlaylist.tracks
           acepta == ~lanza /\ AceptaCreate(m)
           ids == IF acepta THEN Append(matchedTrackIds, m.best.id)
                  ELSE matchedTrackIds
           origen == IF acepta THEN Append(origenMatched, j) ELSE origenMatched
           errs == IF acepta THEN errorsCreate
                   ELSE IF lanza
                   THEN Append(errorsCreate, Entrada("Error matching track", "error", j))
                   ELSE Append(errorsCreate, Entrada("Could not find match", "", j))
       IN /\ resueltaCreate' = [track |-> j, lanza |-> lanza,
                               tidalTrack |-> IF lanza THEN 0 ELSE m.best.id,
                               confidence |-> IF lanza THEN 0 ELSE m.conf]
          /\ IF pendientes = {j} /\ ~(grupoI + batchSize < n) /\ Len(ids) = 0
             THEN Registrar([result EXCEPT !.successfulTracks = 0,
                                           !.failedTracks = Len(errs),
                                           !.errors = errs],
                            "playlistsCreated")
             ELSE /\ matchedTrackIds' = ids
                  /\ origenMatched' = origen
                  /\ errorsCreate' = errs
                  /\ UNCHANGED <<result, summary, syncIdx, tracksUpd, trackIdx, foundTrackIds,
                                 failedTracksUpd>>
                  /\ IF pendientes # {j}
                     THEN /\ pendientes' = pendientes \ {j}
                          /\ UNCHANGED <<grupoI, syncPc>>
                     ELSE IF grupoI + batchSize < n
                     THEN /\ grupoI' = grupoI + batchSize
                          /\ pendientes' = Grupo(n, grupoI + batchSize)
                          /\ UNCHANGED syncPc
                     ELSE /\ grupoI' = grupoI + batchSize
                          /\ pendientes' = {}
                          /\ syncPc' = "escribir"
  /\ Llamada("ok")
  /\ UNCHANGED <<plan, limpiezaFallida, escritos, lanzado, ultimaResolucion>>

\* faulty variant of AjustarFallidos: the matched tracks are not moved to the
\* failed count
SyncMutSinAjuste(fallidos, exitosos) == fallidos

\* failedTracks += successfulTracks
AjustarFallidos(fallidos, exitosos) == fallidos + exitosos

\* addTracksToTidalPlaylist: the single addTracksToPlaylist call and its catch,
\* then the return of syncPlaylistToTidal
AgregarCreate ==
  /\ SoloSync
  /\ syncPc = "escribir"
  /\ \E o \in ResultadosRemotos :
       /\ Llamada(o)
       /\ escritos' = (IF o = "ok" THEN matchedTrackIds ELSE <<>>)
       /\ IF o = "ok"
          THEN Registrar([result EXCEPT !.successfulTracks = Len(matchedTrackIds),
                                        !.failedTracks = Len(errorsCreate),
                                        !.errors = errorsCreate],
                         "playlistsCreated")
          ELSE Registrar([result EXCEPT
                            !.successfulTracks = 0,
                            !.failedTracks = AjustarFallidos(Len(errorsCreate),
                                                             Len(matchedTrackIds)),
                            !.errors = Append(errorsCreate,
                                         Entrada("Failed to add tracks to playlist", o, 0))],
                         "playlistsCreated")
  /\ UNCHANGED <<plan, limpiezaFallida, lanzado, ultimaResolucion, resueltaCreate>>

\* updateExistingPlaylist: catch (error) { errors.push(...); action = 'skipped' }
CatchActualizar(r, o) ==
  Registrar([r EXCEPT !.errors = Append(@, Entrada("Failed to update playlist", o, 0)),
                      !.action = "skipped"],
            "playlistsUpdated")

\* case 'update': updateExistingPlaylist up to the end of getPlaylistTracks
ObtenerTracks ==
  /\ SoloSync
  /\ syncPc = "loop"
  /\ syncIdx <= Len(plan)
  /\ plan[syncIdx].action = "update"
  /\ LET p == plan[syncIdx].spotifyPlaylist
         r == [playlistName |-> p.name, action |-> "updated", totalTracks |-> 0,
               successfulTracks |-> 0, failedTracks |-> 0, errors |-> <<>>]
     IN \E o \in ResultadosRemotos, n \in 0..p.totalTracks :
          /\ Llamada(o)
          /\ lanzado' = (IF o = "ok" THEN "" ELSE o)
          /\ IF o # "ok" THEN CatchActualizar(r, o)
             ELSE IF n = 0 THEN Registrar(r, "playlistsUpdated")
             ELSE /\ result' = [r EXCEPT !.totalTracks = n]
                  /\ syncPc' = "limpiar"
                  /\ tracksUpd' = n
                  /\ UNCHANGED <<summary, syncIdx, grupoI, pendientes, matchedTrackIds,
                                 origenMatched, errorsCreate, trackIdx, foundTrackIds,
                                 failedTracksUpd>>
  /\ NuevaPlaylist
  /\ UNCHANGED plan

\* faulty variant of CatchLimpiar: the error of clearPlaylist reaches the outer
\* catch of updateExistingPlaylist
SyncMutLimpiarAborta(o) ==
  /\ limpiezaFallida' = TRUE
  /\ CatchActualizar(result, o)

\* catch (error) { errors.push(`Warning: Could not clear existing playlist`) }
CatchLimpiar(o) ==
  /\ limpiezaFallida' = TRUE
  /\ result' = [result EXCEPT
                  !.errors = Append(@, Entrada("Warning: Could not clear existing playlist",
                                               o, 0))]
  /\ syncPc' = "buscar"
  /\ UNCHANGED <<summary, syncIdx, grupoI, pendientes, matchedTrackIds, origenMatched,
                 errorsCreate, tracksUpd, trackIdx, foundTrackIds, failedTracksUpd>>

\* updateExistingPlaylist: tidalService.clearPlaylist in its own try
LimpiarPlaylist ==
  /\ SoloSync
  /\ syncPc = "limpiar"
  /\ \E o \in ResultadosRemotos :
       /\ Llamada(o)
       /\ IF o = "ok"
          THEN /\ syncPc' = "buscar"
               /\ UNCHANGED <<result, summary, syncIdx, limpiezaFallida, grupoI, pendientes,
                              matchedTrackIds, origenMatched, errorsCreate, tracksUpd,
                              trackIdx, foundTrackIds, failedTracksUpd>>
          ELSE CatchLimpiar(o)
  /\ UNCHANGED <<plan, escritos, lanzado, ultimaResolucion, resueltaCreate>>

\* What the loop body of updateExistingPlaylist selects for one track: o is the
\* outcome of searchTrack, items its data, disponible what verifyTrack tells
\* about the first item.  0: nothing is selected.
SeleccionUpdate(o, items, disponible) ==
  IF o # "ok" \/ items = <<>> \/ ~disponible THEN 0 ELSE items[1].id

\* the message pushed to failedTracks
MotivoUpdate(o, items) ==
  IF o # "ok" THEN "error de busqueda"
  ELSE IF items = <<>> THEN "no encontrada"
  ELSE "no disponible"

\* updateExistingPlaylist: one iteration of for (const track of tracks); after
\* the last one, the return when no id was found
BuscarUpdate ==
  /\ SoloSync
  /\ syncPc = "buscar"
  /\ trackIdx <= tracksUpd
  /\ \E o \in ResultadosRemotos, items \in SyncRespuestas, disponible \in BOOLEAN :
       LET id == SeleccionUpdate(o, items, disponible)
           found == IF id # 0 THEN Append(foundTrackIds, id) ELSE foundTrackIds
           failed == IF id # 0 THEN failedTracksUpd
                     ELSE Append(failedTracksUpd, Entrada(MotivoUpdate(o, items), "", trackIdx))
       IN /\ Llamada(o)
          /\ ultimaResolucion' = [items |-> IF o = "ok" THEN items ELSE <<>>,
                                  lanza |-> o # "ok", elegido |-> id, track |-> trackIdx]
          /\ IF trackIdx = tracksUpd /\ Len(found) = 0
             THEN Registrar([result EXCEPT !.successfulTracks = 0,
                                           !.failedTracks = Len(failed),
                                           !.errors = failed],
                            "playlistsUpdated")
             ELSE /\ foundTrackIds' = found
                  /\ failedTracksUpd' = failed
                  /\ trackIdx' = trackIdx + 1
                  /\ syncPc' = IF trackIdx < tracksUpd THEN "buscar" ELSE "lotes"
                  /\ UNCHANGED <<result, summary, syncIdx, grupoI, pendientes,
                                 matchedTrackIds, origenMatched, errorsCreate, tracksUpd>>
  /\ UNCHANGED <<plan, limpiezaFallida, escritos, lanzado, resueltaCreate>>

\* updateExistingPlaylist: addTracksInBatches(uuid, foundTrackIds), which rethrows
\* the failure of a batch, then the return.  (With fewer than BATCH_SIZE ids
\* there is one batch: a failed write has written nothing.)
EscribirLotes ==
  /\ SoloSync
  /\ syncPc = "lotes"
  /\ \E o \in ResultadosRemotos :
       /\ Llamada(o)
       /\ lanzado' = (IF o = "ok" THEN "" ELSE o)
       /\ escritos' = (IF o = "ok" THEN foundTrackIds ELSE <<>>)
       /\ IF o = "ok"
          THEN Registrar([result EXCEPT !.successfulTracks = Len(foundTrackIds),
                                        !.failedTracks = Len(failedTracksUpd),
                                        !.errors = failedTracksUpd],
                         "playlistsUpdated")
          ELSE CatchActualizar(result, o)
  /\ UNCHANGED <<plan, limpiezaFallida, ultimaResolucion, resueltaCreate>>

\* return summary
Retornar ==
  /\ SoloSync
  /\ syncPc = "loop"
  /\ syncIdx > Len(plan)
  /\ syncPc' = "done"
  /\ UNCHANGED <<plan, syncIdx, summary, result, grupoI, pendientes, matchedTrackIds,
                 origenMatched, errorsCreate, tracksUpd, trackIdx, foundTrackIds,
                 failedTracksUpd, limpiezaFallida, escritos, conLlamadas, lanzado,
                 authVisto, ultimaResolucion, resueltaCreate>>

SyncNext ==
  \/ ProcesarSkip
  \/ CrearPlaylist
  \/ ResolverCreate
  \/ AgregarCreate
  \/ ObtenerTracks
  \/ LimpiarPlaylist
  \/ BuscarUpdate
  \/ EscribirLotes
  \/ Retornar

\* ======================================================================
\* Application: SpotifyTidalApp.run in automatic mode with
\* authenticateServices, retryOperation, performPlaylistSync, the progress
\* file and the shutdown handlers; one process after another
\* ======================================================================

\* largest config.maxRetries (3 by default)
MaxRetries == 3

\* largest number of processes started one after another
MaxCorridas == 2

\* calculateRateLimitDelay: the fixed delay, ms
ESPERA_RATE_LIMIT == 60000

\* what a user-authentication operation ends with
ResultadosAuth == {"ok", "fallo", "rate limit"}

\* this.state of a fresh SpotifyTidalApp
EstadoInicial ==
  [isAuthenticated |-> FALSE, currentOperation |-> "", processedPlaylists |-> <<>>]

SinArchivo == [existe |-> FALSE, state |-> EstadoInicial]

AppInit ==
  /\ appPc = "auth"
  /\ maxRetries \in 1..MaxRetries
  /\ totalApp \in 1..MaxPlaylists
  /\ corrida = 1
  /\ state = [EstadoInicial EXCEPT !.currentOperation = "authentication"]
  /\ shutdownRequested = FALSE
  /\ archivo = SinArchivo
  /\ archivoAlInicio = SinArchivo
  /\ authAttempt = 1
  /\ authFase = "tidal"
  /\ opAttempt = 1
  /\ invocaciones = [tidal |-> 0, spotify |-> 0]
  /\ ultimaEspera = 0
  /\ sincronizadas = 0
  /\ salida = "ninguna"
  /\ salidaPrevia = "ninguna"

AppIdle ==
  /\ appPc = "idle"
  /\ maxRetries = 0
  /\ totalApp = 0
  /\ corrida = 0
  /\ state = EstadoInicial
  /\ shutdownRequested = FALSE
  /\ archivo = SinArchivo
  /\ archivoAlInicio = SinArchivo
  /\ authAttempt = 0
  /\ authFase = "idle"
  /\ opAttempt = 0
  /\ invocaciones = [tidal |-> 0, spotify |-> 0]
  /\ ultimaEspera = 0
  /\ sincronizadas = 0
  /\ salida = "ninguna"
  /\ salidaPrevia = "ninguna"

\* savePartialProgress called while this.shutdownRequested has the value
\* pedido and this.state the value st
SavePartialProgress(pedido, st) ==
  archivo' = IF pedido THEN archivo ELSE [existe |-> TRUE, state |-> st]

\* handleCriticalError: the progress is saved and the process exits with 1
HandleCriticalError ==
  /\ SavePartialProgress(shutdownRequested, state)
  /\ appPc' = "exited"
  /\ salida' = "error"

\* Math.pow(2, attempt) * 1000
EsperaExponencial(attempt) == Pow(2, attempt) * 1000

\* authenticateServices: one invocation of the user-authentication operation
\* of the current step inside retryOperation, with what follows it: the next
\* step, the next attempt of retryOperation, the next attempt of
\* authenticateServices, or its final throw
IntentarAuth ==
  /\ SoloApp
  /\ appPc = "auth"
  /\ invocaciones' = [invocaciones EXCEPT ![authFase] = @ + 1]
  /\ \E o \in ResultadosAuth :
       IF o = "ok"
       THEN /\ opAttempt' = 1
            /\ UNCHANGED <<authAttempt, ultimaEspera, archivo, salida>>
            /\ IF authFase = "tidal"
               THEN /\ authFase' = "spotify"
                    /\ UNCHANGED <<appPc, state>>
               ELSE /\ authFase' = "done"
                    /\ appPc' = "sync"
                    /\ state' = [state EXCEPT !.isAuthenticated = TRUE,
                                                !.currentOperation = "playlist_sync"]
       ELSE IF opAttempt < maxRetries
       THEN /\ opAttempt' = opAttempt + 1
            /\ ultimaEspera' = IF o = "rate limit" THEN ESPERA_RATE_LIMIT
                               ELSE EsperaExponencial(opAttempt)
            /\ UNCHANGED <<authAttempt, authFase, appPc, state, archivo, salida>>
       ELSE IF authAttempt < maxRetries
       THEN /\ authAttempt' = authAttempt + 1
            /\ authFase' = "tidal"
            /\ opAttempt' = 1
            /\ ultimaEspera' = EsperaExponencial(authAttempt)
            /\ UNCHANGED <<appPc, state, archivo, salida>>
       ELSE /\ HandleCriticalError
            /\ ultimaEspera' = IF o = "rate limit" THEN ESPERA_RATE_LIMIT ELSE ultimaEspera
            /\ UNCHANGED <<authAttempt, authFase, opAttempt, state>>
  /\ UNCHANGED <<maxRetries, totalApp, corrida, shutdownRequested, archivoAlInicio,
                 sincronizadas, salidaPrevia>>

\* performFullSync fails before its loop (a roster could not be fetched)
FalloSync ==
  /\ SoloApp
  /\ appPc = "sync"
  /\ sincronizadas = 0
  /\ HandleCriticalError
  /\ UNCHANGED <<maxRetries, totalApp, corrida, state, shutdownRequested, archivoAlInicio,
                 authAttempt, authFase, opAttempt, invocaciones, ultimaEspera,
                 sincronizadas, salidaPrevia>>

\* performFullSync processes its next playlist
SincronizarUna ==
  /\ SoloApp
  /\ appPc = "sync"
  /\ sincronizadas < totalApp
  /\ sincronizadas' = sincronizadas + 1
  /\ UNCHANGED <<appPc, maxRetries, totalApp, corrida, state, shutdownRequested, archivo,
                 archivoAlInicio, authAttempt, authFase, opAttempt, invocaciones,
                 ultimaEspera, salida, salidaPrevia>>

\* the setInterval callback of performPlaylistSync
GuardarIntervalo ==
  /\ SoloApp
  /\ appPc = "sync"
  /\ SavePartialProgress(shutdownRequested, state)
  /\ UNCHANGED <<appPc, maxRetries, totalApp, corrida, state, shutdownRequested,
                 archivoAlInicio, authAttempt, authFase, opAttempt, invocaciones,
                 ultimaEspera, sincronizadas, salida, salidaPrevia>>

\* performFullSync returns: state.processedPlaylists = results.map(r => r.playlistName)
TerminarSync ==
  /\ SoloApp
  /\ appPc = "sync"
  /\ sincronizadas = totalApp
  /\ state' = [state EXCEPT !.processedPlaylists = [i \in 1..totalApp |-> i]]
  /\ appPc' = "report"
  /\ UNCHANGED <<maxRetries, totalApp, corrida, shutdownRequested, archivo, archivoAlInicio,
                 authAttempt, authFase, opAttempt, invocaciones, ultimaEspera,
                 sincronizadas, salida, salidaPrevia>>

\* generateFinalReport, which ends with savePartialProgress
Reporte ==
  /\ SoloApp
  /\ appPc = "report"
  /\ SavePartialProgress(shutdownRequested, state)
  /\ appPc' = "cleanup"
  /\ UNCHANGED <<maxRetries, totalApp, corrida, state, shutdownRequested, archivoAlInicio,
                 authAttempt, authFase, opAttempt, invocaciones, ultimaEspera,
                 sincronizadas, salida, salidaPrevia>>

\* finally { await this.cleanup() } and the end of the process
Limpieza ==
  /\ SoloApp
  /\ appPc = "cleanup"
  /\ SavePartialProgress(shutdownRequested, state)
  /\ appPc' = "exited"
  /\ salida' = "normal"
  /\ UNCHANGED <<maxRetries, totalApp, corrida, state, shutdownRequested, archivoAlInicio,
                 authAttempt, authFase, opAttempt, invocaciones, ultimaEspera,
                 sincronizadas, salidaPrevia>>

\* gracefulShutdown on SIGINT or SIGTERM: the flag is set, then
\* savePartialProgress is awaited, then process.exit(0)
GracefulShutdown ==
  /\ SoloApp
  /\ appPc \in {"auth", "sync", "report", "cleanup"}
  /\ ~shutdownRequested
  /\ shutdownRequested' = TRUE
  /\ SavePartialProgress(TRUE, state)
  /\ appPc' = "exited"
  /\ salida' = "senal"
  /\ UNCHANGED <<maxRetries, totalApp, corrida, state, archivoAlInicio, authAttempt,
                 authFase, opAttempt, invocaciones, ultimaEspera, sincronizadas,
                 salidaPrevia>>

\* the application is started again: the constructor and run up to
\* authenticateServices.  The progress file is what the earlier process left.
NuevaCorrida ==
  /\ SoloApp
  /\ appPc = "exited"
  /\ corrida < MaxCorridas
  /\ corrida' = corrida + 1
  /\ appPc' = "auth"
  /\ state' = [EstadoInicial EXCEPT !.currentOperation = "authentication"]
  /\ shutdownRequested' = FALSE
  /\ archivoAlInicio' = archivo
  /\ authAttempt' = 1
  /\ authFase' = "tidal"
  /\ opAttempt' = 1
  /\ invocaciones' = [tidal |-> 0, spotify |-> 0]
  /\ ultimaEspera' = 0
  /\ sincronizadas' = 0
  /\ salida' = "ninguna"
  /\ salidaPrevia' = salida
  /\ UNCHANGED <<maxRetries, totalApp, archivo>>

AppNext ==
  \/ IntentarAuth
  \/ FalloSync
  \/ SincronizarUna
  \/ GuardarIntervalo
  \/ TerminarSync
  \/ Reporte
  \/ Limpieza
  \/ GracefulShutdown
  \/ NuevaCorrida

\* ======================================================================
\* Text comparison: SongMatcher.normalizeString, calculateStringSimilarity,
\* levenshteinDistance, calculateArtistSimilarity, calculateDurationSimilarity
\* and calculateSimilarity on concrete strings
\* ======================================================================

\* longest input string of normalizeString
MaxLen == 3

\* characters of the input strings: a lower-case and an upper-case letter, a
\* space and a tab, an underscore (a word character), and two characters that
\* are neither word characters nor white space
Alfabeto == {"a", "A", " ", "\t", "_", "-", "÷"}

\* the class \w
EsPalabra(c) ==
  \/ \E i \in 1..Len(Minusculas) : Minusculas[i] = c
  \/ \E i \in 1..Len(Mayusculas) : Mayusculas[i] = c
  \/ c \in {"0", "1", "2", "3", "4", "5", "6", "7", "8", "9", "_"}

\* .replace(/[^\w\s]/g, ' ')
ReemplazarEspeciales(s) ==
  [i \in 1..Len(s) |-> IF EsPalabra(s[i]) \/ IsSpace(s[i]) THEN s[i] ELSE " "]

\* .replace(/\s+/g, ' ')
\* every run of white space leaves one space, at the position of its first
\* character; the other characters stay
ColapsarEspacios(s) ==
  LET queda == {i \in 1..Len(s) : ~IsSpace(s[i]) \/ i = 1 \/ ~IsSpace(s[i - 1])}
      pos(k) == CHOOSE i \in queda : Cardinality({j \in queda : j < i}) = k - 1
  IN [k \in 1..Cardinality(queda) |-> IF IsSpace(s[pos(k)]) THEN " " ELSE s[pos(k)]]

\* faulty variant of NormalizeString: the final trim is missing
TextoMutSinTrimFinal(s) == ColapsarEspacios(ReemplazarEspeciales(Trim(ToLowerCase(s))))

\* normalizeString
NormalizeString(s) ==
  Trim(ColapsarEspacios(ReemplazarEspeciales(Trim(ToLowerCase(s)))))

\* one row of the matrix of levenshteinDistance: prev is row j - 1, fila holds
\* the cells 0 .. Len(fila) - 1 of row j, c is str2[j - 1]
RECURSIVE LevFila(_, _, _, _)
LevFila(prev, fila, str1, c) ==
  IF Len(fila) = Len(str1) + 1 THEN fila
  ELSE LET i == Len(fila)
           indicator == IF str1[i] = c THEN 0 ELSE 1
           celda == Min(Min(fila[i] + 1, prev[i + 1] + 1), prev[i] + indicator)
       IN LevFila(prev, Append(fila, celda), str1, c)

RECURSIVE LevMatriz(_, _, _, _)
LevMatriz(prev, j, str1, str2) ==
  IF j > Len(str2) THEN prev
  ELSE LET fila == LevFila(prev, <<j>>, str1, str2[j])
       IN \* the inner loop fills row j before the outer loop goes on
          IF Len(fila) = Len(str1) + 1 THEN LevMatriz(fila, j + 1, str1, str2)
          ELSE fila

\* levenshteinDistance
LevenshteinDistance(str1, str2) ==
  LevMatriz([i \in 1..(Len(str1) + 1) |-> i - 1], 1, str1, str2)[Len(str1) + 1]

\* calculateStringSimilarity, in thousandths (rounded down)
CalculateStringSimilarity(str1, str2) ==
  IF str1 = str2 THEN 1000
  ELSE IF Len(str1) = 0 \/ Len(str2) = 0 THEN 0
  ELSE LET distance == LevenshteinDistance(str1, str2)
           maxLength == Max(Len(str1), Len(str2))
       IN ((maxLength - distance) * 1000) \div maxLength

\* the largest element of a non-empty finite set of numbers
Maximo(S) == CHOOSE m \in S : \A x \in S : x <= m

\* calculateArtistSimilarity, in thousandths
CalculateArtistSimilarity(spotifyArtists, tidalArtists) ==
  IF Len(spotifyArtists) = 0 \/ Len(tidalArtists) = 0 THEN 0
  ELSE Maximo({ CalculateStringSimilarity(NormalizeString(spotifyArtists[i]),
                                          NormalizeString(tidalArtists[j])) :
                  i \in 1..Len(spotifyArtists), j \in 1..Len(tidalArtists) })

\* faulty variant of CalculateDurationSimilarity: no neutral score
TextoMutSinNeutral(duration1, duration2) ==
  IF duration1 = duration2 THEN 1000 ELSE 300

\* calculateDurationSimilarity, in thousandths; difference / average <= p / 10
\* is written 20 * difference <= p * (duration1 + duration2)
CalculateDurationSimilarity(duration1, duration2) ==
  IF duration1 = 0 \/ duration2 = 0 THEN 500
  ELSE LET difference == IF duration1 >= duration2 THEN duration1 - duration2
                         ELSE duration2 - duration1
           suma == duration1 + duration2
       IN IF 20 * difference <= suma THEN 1000
          ELSE IF 20 * difference <= 2 * suma THEN 800
          ELSE IF 20 * difference <= 3 * suma THEN 600
          ELSE 300

\* tidalTrack.artists || [tidalTrack.artist]
ArtistasTidal(tidalTrack) ==
  IF tidalTrack.artists.definido THEN tidalTrack.artists.lista
  ELSE <<tidalTrack.artist>>

\* the four similarities calculateSimilarity computes for a candidate
Similitudes(spotifyTrack, tidalTrack) ==
  [ id |-> tidalTrack.id,
    titulo |-> CalculateStringSimilarity(NormalizeString(spotifyTrack.title),
                                         NormalizeString(tidalTrack.title)),
    artista |-> CalculateArtistSimilarity(spotifyTrack.artists, ArtistasTidal(tidalTrack)),
    album |-> CalculateStringSimilarity(NormalizeString(spotifyTrack.album),
                                        NormalizeString(tidalTrack.album)),
    duracion |-> CalculateDurationSimilarity(spotifyTrack.duration, tidalTrack.duracionMs) ]

\* calculateSimilarity on two tracks
CalculateSimilarityTexto(spotifyTrack, tidalTrack) ==
  CalculateSimilarity(Similitudes(spotifyTrack, tidalTrack))

ShapeOfYou ==
  [ title |-> <<"S", "h", "a", "p", "e", " ", "o", "f", " ", "Y", "o", "u">>,
    artists |-> << <<"E", "d", " ", "S", "h", "e", "e", "r", "a", "n">> >>,
    album |-> <<"÷">>,
    duration |-> 233713 ]

\* the Spotify tracks compared: durations are in milliseconds, zero included
Fuentes ==
  {ShapeOfYou}
  \cup [ title : { <<"a">>, <<"A", " ", "b">> },
         artists : { << <<"b">> >>, << <<"b">>, <<"c">> >> },
         album : { <<"a">>, <<"-">> },
         duration : {0, 180000} ]

\* the Tidal track with the title, artists, album and duration of a source
\* track; duracionMs is tidalTrack.duration * 1000
CopiaDe(spotifyTrack) ==
  [ id |-> 1,
    title |-> spotifyTrack.title,
    artist |-> spotifyTrack.artists[1],
    artists |-> [definido |-> TRUE, lista |-> spotifyTrack.artists],
    album |-> spotifyTrack.album,
    duracionMs |-> spotifyTrack.duration ]

ShapeOfYouDivide ==
  [ id |-> 2,
    title |-> ShapeOfYou.title,
    artist |-> ShapeOfYou.artists[1],
    artists |-> [definido |-> FALSE, lista |-> <<>>],
    album |-> <<"D", "i", "v", "i", "d", "e">>,
    duracionMs |-> 234000 ]

\* the Tidal tracks compared that are not copies of the source track
Candidatos ==
  { ShapeOfYouDivide,
    [ id |-> 3, title |-> <<"a", "b">>, artist |-> <<"B">>,
      artists |-> [definido |-> FALSE, lista |-> <<>>],
      album |-> <<"a">>, duracionMs |-> 200000 ],
    [ id |-> 4, title |-> <<"a">>, artist |-> <<"c">>,
      artists |-> [definido |-> TRUE, lista |-> <<>>],
      album |-> <<"_">>, duracionMs |-> 0 ] }

NoFuente == [title |-> <<>>, artists |-> <<>>, album |-> <<>>, duration |-> 0]

NoCandidato ==
  [ id |-> 0, title |-> <<>>, artist |-> <<>>,
    artists |-> [definido |-> FALSE, lista |-> <<>>], album |-> <<>>, duracionMs |-> 0 ]

SinMejor == [best |-> NoTrack, conf |-> 0, puntuados |-> 0, trasAlta |-> 0]

TextoInit ==
  /\ normalizado = <<>>
  /\ renormalizado = <<>>
  /\ similitud = 0
  /\ consultasTexto = 0
  /\ mejorTexto = SinMejor
  /\ \/ /\ texto \in SeqsUpTo(Alfabeto, MaxLen)
        /\ fuente = NoFuente
        /\ candidato = NoCandidato
        /\ textoPc = "normalizar"
     \/ /\ texto = <<>>
        /\ fuente \in Fuentes
        /\ candidato \in {CopiaDe(fuente)} \cup Candidatos
        /\ textoPc = "puntuar"

TextoIdle ==
  /\ texto = <<>>
  /\ normalizado = <<>>
  /\ renormalizado = <<>>
  /\ fuente = NoFuente
  /\ candidato = NoCandidato
  /\ similitud = 0
  /\ consultasTexto = 0
  /\ mejorTexto = SinMejor
  /\ textoPc = "idle"

\* normalizeString(texto)
Normalizar ==
  /\ SoloTexto
  /\ textoPc = "normalizar"
  /\ normalizado' = NormalizeString(texto)
  /\ textoPc' = "renormalizar"
  /\ UNCHANGED <<texto, renormalizado, fuente, candidato, similitud, consultasTexto,
                 mejorTexto>>

\* normalizeString applied to its own result
Renormalizar ==
  /\ SoloTexto
  /\ textoPc = "renormalizar"
  /\ renormalizado' = NormalizeString(normalizado)
  /\ textoPc' = "fin"
  /\ UNCHANGED <<texto, normalizado, fuente, candidato, similitud, consultasTexto,
                 mejorTexto>>

\* calculateSimilarity(fuente, candidato)
Puntuar ==
  /\ SoloTexto
  /\ textoPc = "puntuar"
  /\ similitud' = CalculateSimilarityTexto(fuente, candidato)
  /\ textoPc' = "buscar"
  /\ UNCHANGED <<texto, normalizado, renormalizado, fuente, candidato, consultasTexto,
                 mejorTexto>>

\* one iteration of the loop of findBestMatch for fuente, every search
\* returning the one item candidato
BuscarTexto ==
  /\ SoloTexto
  /\ textoPc = "buscar"
  /\ consultasTexto < Len(GenerateSearchQueries(Len(fuente.artists)))
  /\ consultasTexto' = consultasTexto + 1
  /\ mejorTexto' = ScoreItems(<<Similitudes(fuente, candidato)>>, mejorTexto)
  /\ textoPc' = IF \/ EsAltaConfianza(mejorTexto'.conf)
                   \/ consultasTexto' = Len(GenerateSearchQueries(Len(fuente.artists)))
                THEN "fin" ELSE "buscar"
  /\ UNCHANGED <<texto, normalizado, renormalizado, fuente, candidato, similitud>>

TextoNext == Normalizar \/ Renormalizar \/ Puntuar \/ BuscarTexto

\* ======================================================================
\* Resolution groups: the loop of addTracksToTidalPlaylist over groups of
\* batchSize tracks, each group resolved concurrently.  What a resolution
\* pushes is modelled in the synchronisation run; here a resolution only
\* settles, with or without a match.
\* ======================================================================

\* largest number of tracks of the playlist
MaxPistas == 12

\* the delay between two groups, ms
ESPERA_GRUPOS == 100

GrupoInit ==
  /\ pistas \in 0..MaxPistas
  /\ grupoDesde = 0
  /\ enVuelo = {}
  /\ iniciadas = {}
  /\ asentadas = {}
  /\ exitosas = 0
  /\ demoras = <<>>
  /\ gruposPc = "iniciar"

GrupoIdle ==
  /\ pistas = 0
  /\ grupoDesde = 0
  /\ enVuelo = {}
  /\ iniciadas = {}
  /\ asentadas = {}
  /\ exitosas = 0
  /\ demoras = <<>>
  /\ gruposPc = "idle"

\* batch.map(async (track) => ...): every promise of the group is started
IniciarGrupo ==
  /\ SoloGrupo
  /\ gruposPc = "iniciar"
  /\ grupoDesde < pistas
  /\ enVuelo' = enVuelo \cup Grupo(pistas, grupoDesde)
  /\ iniciadas' = iniciadas \cup Grupo(pistas, grupoDesde)
  /\ gruposPc' = "esperar"
  /\ UNCHANGED <<pistas, grupoDesde, asentadas, exitosas, demoras>>

\* one promise of the group settles: findBestMatch gave a match above 0.7
\* (successfulTracks++) or it did not, or threw (failedTracks++)
AsentarResolucion ==
  /\ SoloGrupo
  /\ gruposPc = "esperar"
  /\ \E j \in enVuelo, ok \in BOOLEAN :
       /\ enVuelo' = enVuelo \ {j}
       /\ asentadas' = asentadas \cup {j}
       /\ exitosas' = exitosas + (IF ok THEN 1 ELSE 0)
  /\ UNCHANGED <<pistas, grupoDesde, iniciadas, demoras, gruposPc>>

\* faulty variant of TodasAsentadas: the loop goes on without awaiting the group
GrupoMutSinEsperar(p) == TRUE

\* Promise.all(batchPromises) resolves when every promise of the group has
\* settled (the promises never reject: each body is one try / catch)
TodasAsentadas(p) == p = {}

\* await Promise.all(batchPromises) returns; the delay is started when
\* another group follows
PromiseAll ==
  /\ SoloGrupo
  /\ gruposPc = "esperar"
  /\ TodasAsentadas(enVuelo)
  /\ IF grupoDesde + batchSize < pistas
     THEN /\ demoras' = Append(demoras, ESPERA_GRUPOS)
          /\ gruposPc' = "demora"
          /\ UNCHANGED grupoDesde
     ELSE /\ grupoDesde' = grupoDesde + batchSize
          /\ gruposPc' = "iniciar"
          /\ UNCHANGED demoras
  /\ UNCHANGED <<pistas, enVuelo, iniciadas, asentadas, exitosas>>

\* the delay is over: i += batchSize
DemoraEntreGrupos ==
  /\ SoloGrupo
  /\ gruposPc = "demora"
  /\ grupoDesde' = grupoDesde + batchSize
  /\ gruposPc' = "iniciar"
  /\ UNCHANGED <<pistas, enVuelo, iniciadas, asentadas, exitosas, demoras>>

\* the loop test fails: on to the write of the matched ids
SalirDeGrupos ==
  /\ SoloGrupo
  /\ gruposPc = "iniciar"
  /\ ~(grupoDesde < pistas)
  /\ gruposPc' = "fin"
  /\ UNCHANGED <<pistas, grupoDesde, enVuelo, iniciadas, asentadas, exitosas, demoras>>

GrupoNext ==
  \/ IniciarGrupo
  \/ AsentarResolucion
  \/ PromiseAll
  \/ DemoraEntreGrupos
  \/ SalirDeGrupos

\* ======================================================================
\* TidalService.clearPlaylist: one page of the playlist's items is fetched
\* and the ids of that page are removed in requests of 20, the whole inside
\* the retry wrapper
\* ======================================================================

\* largest number of tracks of the destination playlist
MaxContenido == 101

\* params.limit of the GET: the API returns at most that many items
LIMITE_ITEMS == 100

\* BATCH_SIZE of the removal loop
LOTE_BORRADO == 20

\* the delay between two removal requests, ms
ESPERA_BORRADO == 500

\* maxReintentos of CONFIGURACION_REINTENTO_PREDETERMINADA
ReintentosLimpiar == 3

LimpiarInit ==
  /\ contenido \in {[i \in 1..n |-> i] : n \in 0..MaxContenido}
  /\ idsLeidos = <<>>
  /\ limpiarIdx = 0
  /\ borrados = <<>>
  /\ limpiarIntento = 1
  /\ limpiarPc = "get"

LimpiarIdle ==
  /\ contenido = <<>>
  /\ idsLeidos = <<>>
  /\ limpiarIdx = 0
  /\ borrados = <<>>
  /\ limpiarIntento = 1
  /\ limpiarPc = "idle"

\* s without the elements of quitar
SinIds(s, quitar) == SelectSeq(s, LAMBDA x : \A k \in 1..Len(quitar) : quitar[k] # x)

\* a request of the operation failed with a retryable error: the wrapper runs
\* the operation again, or throws after the last attempt
FalloLimpiar ==
  IF limpiarIntento < ReintentosLimpiar
  THEN /\ limpiarIntento' = limpiarIntento + 1
       /\ limpiarPc' = "get"
  ELSE /\ limpiarPc' = "lanzado"
       /\ UNCHANGED limpiarIntento

\* faulty variant of PaginaDeItems: the page holds every item of the playlist
LimpiarMutTodaLaLista(s) == s

\* response.data.data of the GET with limit 100
PaginaDeItems(s) == SubSeq(s, 1, Min(LIMITE_ITEMS, Len(s)))

\* this.client.get(.../relationships/items, {limit: 100}) and the test on the
\* response
ObtenerItems ==
  /\ SoloLimpiar
  /\ limpiarPc = "get"
  /\ \E ok \in BOOLEAN :
       IF ok
       THEN /\ idsLeidos' = PaginaDeItems(contenido)
            /\ limpiarIdx' = 0
            /\ limpiarPc' = IF Len(PaginaDeItems(contenido)) > 0 THEN "delete" ELSE "retornado"
            /\ UNCHANGED limpiarIntento
       ELSE /\ FalloLimpiar
            /\ UNCHANGED <<idsLeidos, limpiarIdx>>
  /\ UNCHANGED <<contenido, borrados>>

\* one iteration of the removal loop up to its delay
BorrarLote ==
  /\ SoloLimpiar
  /\ limpiarPc = "delete"
  /\ limpiarIdx < Len(idsLeidos)
  /\ LET batch == SubSeq(idsLeidos, limpiarIdx + 1,
                         Min(limpiarIdx + LOTE_BORRADO, Len(idsLeidos)))
     IN /\ borrados' = Append(borrados, batch)
        /\ \E ok \in BOOLEAN :
             IF ok
             THEN /\ contenido' = SinIds(contenido, batch)
                  /\ limpiarPc' = IF limpiarIdx + LOTE_BORRADO < Len(idsLeidos)
                                  THEN "demora" ELSE "retornado"
                  /\ UNCHANGED limpiarIntento
             ELSE /\ FalloLimpiar
                  /\ UNCHANGED contenido
  /\ UNCHANGED <<idsLeidos, limpiarIdx>>

\* the 500 ms delay is over: i += BATCH_SIZE
DemoraBorrado ==
  /\ SoloLimpiar
  /\ limpiarPc = "demora"
  /\ limpiarIdx' = limpiarIdx + LOTE_BORRADO
  /\ limpiarPc' = "delete"
  /\ UNCHANGED <<contenido, idsLeidos, borrados, limpiarIntento>>

LimpiarNext == ObtenerItems \/ BorrarLote \/ DemoraBorrado

\* ======================================================================
\* SongMatcher.calculateDurationSimilarity applied to two pairs of durations
\* ======================================================================

\* longest duration compared, in seconds
MaxSegundos == 23

\* the durations compared, in milliseconds: zero and the odd numbers of
\* seconds, of which (19, 21), (9, 11) and (17, 23) lie on the three steps
Duraciones == {1000 * k : k \in {j \in 0..MaxSegundos : j = 0 \/ j % 2 = 1}}

DuracionInit ==
  /\ duracionesA \in Duraciones \X Duraciones
  /\ duracionesB \in Duraciones \X Duraciones
  /\ similitudA = -1
  /\ similitudB = -1
  /\ duracionPc = "primera"

DuracionIdle ==
  /\ duracionesA = <<0, 0>>
  /\ duracionesB = <<0, 0>>
  /\ similitudA = -1
  /\ similitudB = -1
  /\ duracionPc = "idle"

\* calculateDurationSimilarity(duracionesA)
CompararPrimera ==
  /\ SoloDuracion
  /\ duracionPc = "primera"
  /\ similitudA' = CalculateDurationSimilarity(duracionesA[1], duracionesA[2])
  /\ duracionPc' = "segunda"
  /\ UNCHANGED <<duracionesA, duracionesB, similitudB>>

\* calculateDurationSimilarity(duracionesB)
CompararSegunda ==
  /\ SoloDuracion
  /\ duracionPc = "segunda"
  /\ similitudB' = CalculateDurationSimilarity(duracionesB[1], duracionesB[2])
  /\ duracionPc' = "fin"
  /\ UNCHANGED <<duracionesA, duracionesB, similitudA>>

DuracionNext == CompararPrimera \/ CompararSegunda

\* ======================================================================
\* A retried operation that calls a retried operation: searchTrack,
\* getTrackDetails and getUserPlaylists call getUserInfo inside the operation
\* they hand to ejecutarConReintento, with the same ManejadorErrores
\* ======================================================================

\* what a remote request answers: success, a retryable failure (503, no
\* response) or one that is not retryable (401, 404)
RespuestasAnidado ==
  {[tipo |-> "exito"]}
  \cup {e \in ErroresCrudos : e.tipo = "axios" /\ e.estado \in {0, 401, 404, 503}}

AnidadoInit ==
  /\ cfgAnidado \in {c \in Configuraciones : c.retrasoMaximo = RetrasoMaximo /\ c.variacion}
  /\ externoIntento = 1
  /\ internoIntento = 0
  /\ invocacionesExternas = 0
  /\ llamadasInternas = 0
  /\ fallosPropios = 0
  /\ agotadoEn = 0
  /\ errorLanzado = NoError
  /\ anidadoPc = "externo"

AnidadoIdle ==
  /\ cfgAnidado = [maxReintentos |-> 0]
  /\ externoIntento = 0
  /\ internoIntento = 0
  /\ invocacionesExternas = 0
  /\ llamadasInternas = 0
  /\ fallosPropios = 0
  /\ agotadoEn = 0
  /\ errorLanzado = NoError
  /\ anidadoPc = "idle"

\* the catch block of the outer wrapper for the error e the operation threw,
\* which clasificarError has classified (an ErrorSpotifyTidal is returned as
\* it is); the delay before the next attempt is part of the step
CatchExterno(e) ==
  IF ~EsReintentable(e)
  THEN /\ anidadoPc' = "lanzado"
       /\ errorLanzado' = e
       /\ UNCHANGED externoIntento
  ELSE IF EsUltimoIntento(externoIntento, cfgAnidado)
  THEN /\ anidadoPc' = "lanzado"
       /\ errorLanzado' = ErrorFinal(cfgAnidado, e)
       /\ UNCHANGED externoIntento
  ELSE /\ anidadoPc' = "externo"
       /\ externoIntento' = externoIntento + 1
       /\ UNCHANGED errorLanzado

\* the outer wrapper invokes its operation, which calls getUserInfo
InvocarExterna ==
  /\ SoloAnidado
  /\ anidadoPc = "externo"
  /\ invocacionesExternas' = invocacionesExternas + 1
  /\ internoIntento' = 1
  /\ anidadoPc' = "interno"
  /\ UNCHANGED <<cfgAnidado, externoIntento, llamadasInternas, fallosPropios, agotadoEn,
                 errorLanzado>>

\* one attempt of getUserInfo's wrapper: GET /users/me.  What the inner
\* wrapper throws is caught by the outer one at once.
LlamarInterna ==
  /\ SoloAnidado
  /\ anidadoPc = "interno"
  /\ llamadasInternas' = llamadasInternas + 1
  /\ \E o \in RespuestasAnidado :
       IF o.tipo = "exito"
       THEN /\ anidadoPc' = "propio"
            /\ UNCHANGED <<externoIntento, internoIntento, agotadoEn, errorLanzado>>
       ELSE LET e == ClasificarError(o, Servicio)
            IN IF ~EsReintentable(e)
               THEN /\ CatchExterno(e)
                    /\ UNCHANGED <<internoIntento, agotadoEn>>
               ELSE IF EsUltimoIntento(internoIntento, cfgAnidado)
               THEN /\ agotadoEn' = externoIntento
                    /\ CatchExterno(ErrorFinal(cfgAnidado, e))
                    /\ UNCHANGED internoIntento
               ELSE /\ internoIntento' = internoIntento + 1
                    /\ UNCHANGED <<externoIntento, agotadoEn, errorLanzado, anidadoPc>>
  /\ UNCHANGED <<cfgAnidado, invocacionesExternas, fallosPropios>>

\* the request of the outer operation itself, after getUserInfo has returned
LlamarPropia ==
  /\ SoloAnidado
  /\ anidadoPc = "propio"
  /\ \E o \in RespuestasAnidado :
       IF o.tipo = "exito"
       THEN /\ anidadoPc' = "retornado"
            /\ UNCHANGED <<externoIntento, fallosPropios, errorLanzado>>
       ELSE /\ fallosPropios' = fallosPropios + 1
            /\ CatchExterno(ClasificarError(o, Servicio))
  /\ UNCHANGED <<cfgAnidado, internoIntento, invocacionesExternas, llamadasInternas,
                 agotadoEn>>

AnidadoNext == InvocarExterna \/ LlamarInterna \/ LlamarPropia

\* ======================================================================
\* ErrorLogger.logTrackNotFound, called by the concurrent resolutions of one
\* group: each call reads the log file, appends its entry to what it read and
\* writes the file, with an await between the read and the write
\* ======================================================================

\* largest number of tracks of one group that find no match
MaxRegistradores == 3

\* the log keeps its last 500 entries
MAX_ENTRADAS == 500

\* entries of earlier runs already in the file (track 0)
LogsPrevios == {<<>>, <<0>>}

RegistroInit ==
  /\ sinMatch \in {1..n : n \in 1..MaxRegistradores}
  /\ logArchivo \in LogsPrevios
  /\ logLeido = [p \in sinMatch |-> <<>>]
  /\ logPc = [p \in sinMatch |-> "leer"]

RegistroIdle ==
  /\ sinMatch = {}
  /\ logArchivo = <<>>
  /\ logLeido = <<>>
  /\ logPc = <<>>

\* existingLogs.slice(-500) when there are more than 500
UltimasEntradas(logs) ==
  IF Len(logs) > MAX_ENTRADAS THEN SubSeq(logs, Len(logs) - MAX_ENTRADAS + 1, Len(logs))
  ELSE logs

\* writeTrackNotFoundLogEntry of track p: fs.readFile and JSON.parse
LeerLog ==
  /\ SoloRegistro
  /\ \E p \in sinMatch :
       /\ logPc[p] = "leer"
       /\ logLeido' = [logLeido EXCEPT ![p] = logArchivo]
       /\ logPc' = [logPc EXCEPT ![p] = "escribir"]
  /\ UNCHANGED <<sinMatch, logArchivo>>

\* writeTrackNotFoundLogEntry of track p: push, the cut to 500 entries and
\* fs.writeFile
EscribirLog ==
  /\ SoloRegistro
  /\ \E p \in sinMatch :
       /\ logPc[p] = "escribir"
       /\ logArchivo' = UltimasEntradas(Append(logLeido[p], p))
       /\ logPc' = [logPc EXCEPT ![p] = "fin"]
  /\ UNCHANGED <<sinMatch, logLeido>>

RegistroNext == LeerLog \/ EscribirLog

\* ======================================================================
\* OAuthServer.waitForCallback: the promise is settled by the timeout, by a
\* request to /callback or by an error of the server, each handled by a
\* callback that runs to completion
\* ======================================================================

\* largest number of events (timer, requests, server errors) of one wait
MaxEventos == 4

\* req.url of a request: the path and what the query carries
Solicitudes ==
  [tipo : {"solicitud"}, pathname : {"/callback"}, query : {"code", "error", "nada"}]
  \cup [tipo : {"solicitud"}, pathname : {"/", "/favicon.ico"}, query : {"nada"}]

\* err.code of an 'error' event of the server
ErroresServidor == [tipo : {"error"}, code : {"EADDRINUSE", "EACCES"}]

EventoTimeout == [tipo |-> "timeout"]

OAuthInit ==
  /\ resolved = FALSE
  /\ servidor = "creado"
  /\ temporizador = "pendiente"
  /\ asentamientos = <<>>
  /\ respuestasHttp = <<>>
  /\ historial = <<>>

OAuthIdle ==
  /\ resolved = FALSE
  /\ servidor = "idle"
  /\ temporizador = "idle"
  /\ asentamientos = <<>>
  /\ respuestasHttp = <<>>
  /\ historial = <<>>

\* stopServer: if (this.server) { this.server.close(); this.server = null }
StopServer == servidor' = "null"

\* what the /callback branch passes to resolve for the query q
ResultadoCallback(q) ==
  IF q = "error" THEN [via |-> "resolve", valor |-> "error"]
  ELSE IF q = "code" THEN [via |-> "resolve", valor |-> "code"]
  ELSE [via |-> "resolve", valor |-> "invalid_request"]

\* the status code the /callback branch answers for the query q
EstadoCallback(q) == IF q = "code" THEN 200 ELSE 400

\* what the 'error' handler passes to reject
ResultadoError(code) ==
  IF code = "EADDRINUSE" THEN [via |-> "reject", valor |-> "puerto en uso"]
  ELSE [via |-> "reject", valor |-> "error del servidor"]

\* faulty variant of YaResuelta: the test of the flag is missing
OAuthMutSinBandera(r) == FALSE

\* if (resolved) return;  /  if (!resolved) { ... }
YaResuelta(r) == r

\* the callback of setTimeout runs (the timer was not cleared)
Expirar ==
  /\ SoloOAuth
  /\ Len(historial) < MaxEventos
  /\ temporizador = "pendiente"
  /\ temporizador' = "disparado"
  /\ historial' = Append(historial, EventoTimeout)
  /\ IF ~YaResuelta(resolved)
     THEN /\ resolved' = TRUE
          /\ StopServer
          /\ asentamientos' = Append(asentamientos, [via |-> "reject", valor |-> "expiro"])
     ELSE UNCHANGED <<resolved, servidor, asentamientos>>
  /\ UNCHANGED respuestasHttp

\* the request listener of the server runs for one request (a request of a
\* connection accepted before the server was closed included)
AtenderSolicitud ==
  /\ SoloOAuth
  /\ Len(historial) < MaxEventos
  /\ \E req \in Solicitudes :
       /\ historial' = Append(historial, req)
       /\ IF YaResuelta(resolved)
          THEN UNCHANGED <<resolved, servidor, temporizador, asentamientos, respuestasHttp>>
          ELSE IF req.pathname = "/callback"
          THEN /\ resolved' = TRUE
               /\ temporizador' = (IF temporizador = "pendiente" THEN "cancelado"
                                   ELSE temporizador)
               /\ respuestasHttp' = Append(respuestasHttp, EstadoCallback(req.query))
               /\ StopServer
               /\ asentamientos' = Append(asentamientos, ResultadoCallback(req.query))
          ELSE /\ respuestasHttp' = Append(respuestasHttp, 404)
               /\ UNCHANGED <<resolved, servidor, temporizador, asentamientos>>

\* the 'error' listener of the server runs
ErrorDelServidor ==
  /\ SoloOAuth
  /\ Len(historial) < MaxEventos
  /\ \E err \in ErroresServidor :
       /\ historial' = Append(historial, err)
       /\ IF ~YaResuelta(resolved)
          THEN /\ resolved' = TRUE
               /\ temporizador' = (IF temporizador = "pendiente" THEN "cancelado"
                                   ELSE temporizador)
               /\ asentamientos' = Append(asentamientos, ResultadoError(err.code))
          ELSE UNCHANGED <<resolved, temporizador, asentamientos>>
  /\ UNCHANGED <<servidor, respuestasHttp>>

OAuthNext == Expirar \/ AtenderSolicitud \/ ErrorDelServidor

\* ======================================================================
\* Specifications
\* ======================================================================

InitPlan == PlanInit /\ ReintIdle /\ MatchIdle /\ LoteIdle /\ SyncIdle /\ AppIdle /\ TextoIdle
    /\ GrupoIdle
    /\ LimpiarIdle
    /\ DuracionIdle
    /\ AnidadoIdle
    /\ RegistroIdle
    /\ OAuthIdle

SpecPlan == InitPlan /\ [][PlanNext]_vars

InitReint == ReintInit /\ PlanIdle /\ MatchIdle /\ LoteIdle /\ SyncIdle /\ AppIdle /\ TextoIdle
    /\ GrupoIdle
    /\ LimpiarIdle
    /\ DuracionIdle
    /\ AnidadoIdle
    /\ RegistroIdle
    /\ OAuthIdle

SpecReint == InitReint /\ [][ReintNext]_vars

InitMatch == MatchInit /\ PlanIdle /\ ReintIdle /\ LoteIdle /\ SyncIdle /\ AppIdle /\ TextoIdle
    /\ GrupoIdle
    /\ LimpiarIdle
    /\ DuracionIdle
    /\ AnidadoIdle
    /\ RegistroIdle
    /\ OAuthIdle

SpecMatch == InitMatch /\ [][MatchNext]_vars

InitLote == LoteInit /\ PlanIdle /\ ReintIdle /\ MatchIdle /\ SyncIdle /\ AppIdle /\ TextoIdle
    /\ GrupoIdle
    /\ LimpiarIdle
    /\ DuracionIdle
    /\ AnidadoIdle
    /\ RegistroIdle
    /\ OAuthIdle

SpecLote == InitLote /\ [][LoteNext]_vars

InitSync == SyncInit /\ PlanIdle /\ ReintIdle /\ MatchIdle /\ LoteIdle /\ AppIdle /\ TextoIdle
    /\ GrupoIdle
    /\ LimpiarIdle
    /\ DuracionIdle
    /\ AnidadoIdle
    /\ RegistroIdle
    /\ OAuthIdle

SpecSync == InitSync /\ [][SyncNext]_vars

InitApp == AppInit /\ PlanIdle /\ ReintIdle /\ MatchIdle /\ LoteIdle /\ SyncIdle /\ TextoIdle
    /\ GrupoIdle
    /\ LimpiarIdle
    /\ DuracionIdle
    /\ AnidadoIdle
    /\ RegistroIdle
    /\ OAuthIdle

SpecApp == InitApp /\ [][AppNext]_vars

InitTexto == TextoInit /\ PlanIdle /\ ReintIdle /\ MatchIdle /\ LoteIdle /\ SyncIdle /\ AppIdle
    /\ GrupoIdle
    /\ LimpiarIdle
    /\ DuracionIdle
    /\ AnidadoIdle
    /\ RegistroIdle
    /\ OAuthIdle

SpecTexto == InitTexto /\ [][TextoNext]_vars

InitGrupo == GrupoInit /\ PlanIdle /\ ReintIdle /\ MatchIdle /\ LoteIdle /\ SyncIdle /\ AppIdle
    /\ TextoIdle
    /\ LimpiarIdle
    /\ DuracionIdle
    /\ AnidadoIdle
    /\ RegistroIdle
    /\ OAuthIdle

SpecGrupo == InitGrupo /\ [][GrupoNext]_vars

InitLimpiar == LimpiarInit /\ PlanIdle /\ ReintIdle /\ MatchIdle /\ LoteIdle /\ SyncIdle
    /\ AppIdle /\ TextoIdle /\ GrupoIdle
    /\ DuracionIdle
    /\ AnidadoIdle
    /\ RegistroIdle
    /\ OAuthIdle

SpecLimpiar == InitLimpiar /\ [][LimpiarNext]_vars

InitDuracion == DuracionInit /\ PlanIdle /\ ReintIdle /\ MatchIdle /\ LoteIdle /\ SyncIdle
    /\ AppIdle /\ TextoIdle /\ GrupoIdle /\ LimpiarIdle
    /\ AnidadoIdle
    /\ RegistroIdle
    /\ OAuthIdle

SpecDuracion == InitDuracion /\ [][DuracionNext]_vars

InitAnidado == AnidadoInit /\ PlanIdle /\ ReintIdle /\ MatchIdle /\ LoteIdle /\ SyncIdle
    /\ AppIdle /\ TextoIdle /\ GrupoIdle /\ LimpiarIdle /\ DuracionIdle
    /\ RegistroIdle
    /\ OAuthIdle

SpecAnidado == InitAnidado /\ [][AnidadoNext]_vars

InitRegistro == RegistroInit /\ PlanIdle /\ ReintIdle /\ MatchIdle /\ LoteIdle /\ SyncIdle
    /\ AppIdle /\ TextoIdle /\ GrupoIdle /\ LimpiarIdle /\ DuracionIdle /\ AnidadoIdle
    /\ OAuthIdle

SpecRegistro == InitRegistro /\ [][RegistroNext]_vars

InitOAuth == OAuthInit /\ PlanIdle /\ ReintIdle /\ MatchIdle /\ LoteIdle /\ SyncIdle
    /\ AppIdle /\ TextoIdle /\ GrupoIdle /\ LimpiarIdle /\ DuracionIdle /\ AnidadoIdle
    /\ RegistroIdle

SpecOAuth == InitOAuth /\ [][OAuthNext]_vars

\* ======================================================================
\* Properties of the retry wrapper
\* ======================================================================

C_EsFallo(o) == o.tipo # "exito"

C_Clasificado(o) == ClasificarError(o, Servicio)

\* ----------------------------------------------------------------------
\* C2: ejecutarConReintento invokes the operation at most maxReintentos
\* times; as soon as one invocation succeeds it returns that invocation's
\* value and makes no further invocation.
C2_InvocacionesAcotadas ==
  /\ Len(llamadas) <= configuracion.maxReintentos
  /\ \A i \in 1..Len(llamadas) :
       llamadas[i].tipo = "exito" =>
         /\ i = Len(llamadas)
         /\ reintPc = "retornado"
         /\ resultado = [tipo |-> "valor", valor |-> llamadas[i].valor]
  /\ reintPc = "retornado" =>
       Len(llamadas) >= 1 /\ llamadas[Len(llamadas)].tipo = "exito"

\* two RateLimit failures, then a success, under maxReintentos = 3
C2_Witness ==
  /\ configuracion.maxReintentos = 3
  /\ Len(llamadas) = 3
  /\ llamadas[1].tipo = "axios" /\ llamadas[1].estado = 429
  /\ llamadas[2].tipo = "axios" /\ llamadas[2].estado = 429
  /\ llamadas[3] = [tipo |-> "exito", valor |-> "v2"]
  /\ reintPc = "retornado"
  /\ resultado = [tipo |-> "valor", valor |-> "v2"]

\* ----------------------------------------------------------------------
\* C3: when an invocation fails with an error classified as non-retryable
\* (Auth, ClientError, Unknown), that classified error is thrown at once:
\* no sleep follows it and the operation is not invoked again.
C3_Auth(o) ==
  o.tipo = "axios" /\ (o.estado \in {401, 403} \/ (o.estado = 400 /\ o.oauth))

C3_ClientError(o) ==
  o.tipo = "axios" /\ o.estado >= 400 /\ o.estado < 500 /\ o.estado # 429 /\ ~C3_Auth(o)

C3_Unknown(o) == o.tipo = "otro" \/ (o.tipo = "error" /\ ~o.codigoRed)

C3_NoReintentable(o) ==
  C_EsFallo(o) /\ (C3_Auth(o) \/ C3_ClientError(o) \/ C3_Unknown(o)
                    \/ ~C_Clasificado(o).reintentar)

C3_NoReintentableInmediato ==
  \A i \in 1..Len(llamadas) :
    C3_NoReintentable(llamadas[i]) =>
      /\ i = Len(llamadas)
      /\ reintPc = "lanzado"
      /\ resultado = [tipo |-> "error", error |-> C_Clasificado(llamadas[i])]
      /\ ~resultado.error.reintentar
      /\ Len(dormidos) = i - 1

\* a 401 on the second of three allowed attempts
C3_Witness ==
  /\ configuracion.maxReintentos = 3
  /\ Len(llamadas) = 2
  /\ llamadas[1].tipo = "axios" /\ llamadas[1].estado = 503
  /\ llamadas[2].tipo = "axios" /\ llamadas[2].estado = 401
  /\ reintPc = "lanzado"
  /\ resultado.error.name = "ErrorAutenticacion"
  /\ Len(dormidos) = 1

\* ----------------------------------------------------------------------
\* C4: when all maxReintentos invocations fail with retryable errors, the
\* wrapper stops at attempt = maxReintentos, does not sleep after the final
\* failure, and throws an error that wraps the last classified error (same
\* code, the attempt count in its message) and is marked non-retryable.
C4_TodosReintentables ==
  /\ Len(llamadas) = configuracion.maxReintentos
  /\ \A i \in 1..Len(llamadas) :
       C_EsFallo(llamadas[i]) /\ C_Clasificado(llamadas[i]).reintentar

C4_AgotadoEnvuelve ==
  C4_TodosReintentables =>
    /\ reintPc = "lanzado"
    /\ intento = configuracion.maxReintentos
    /\ Len(dormidos) = configuracion.maxReintentos - 1
    /\ resultado.tipo = "error"
    /\ resultado.error.codigo = C_Clasificado(llamadas[Len(llamadas)]).codigo
    /\ resultado.error.envuelto
    /\ resultado.error.intentos = configuracion.maxReintentos
    /\ ~resultado.error.reintentar

\* three attempts: 429, network error, 503
C4_Witness ==
  /\ configuracion.maxReintentos = 3
  /\ C4_TodosReintentables
  /\ llamadas[1].estado = 429
  /\ llamadas[3].estado = 503
  /\ reintPc = "lanzado"
  /\ resultado.error.codigo = "SERVICIO_NO_DISPONIBLE_TIDAL"
  /\ Len(dormidos) = 2

\* ======================================================================
\* Properties of the resolver
\* ======================================================================

C_Consultas == GenerateSearchQueries(numArtists)

\* ----------------------------------------------------------------------
\* C5: searches are issued in the generated query order, each query's
\* description is appended to searchAttempts with its search, so the attempt
\* log is as long as the number of searches issued; once a candidate scores
\* >= 0.9 no further candidate is scored and no further search is issued.
C5_CortoCircuito ==
  /\ [](/\ Len(searchAttempts) = busquedas
        /\ busquedas = queryIdx
        /\ searchAttempts = SubSeq(C_Consultas, 1, queryIdx)
        /\ puntuadosTrasAlta = 0)
  /\ [][bestConfidence >= 900 =>
          /\ busquedas' = busquedas
          /\ puntuados' = puntuados
          /\ searchAttempts' = searchAttempts
          /\ bestMatch' = bestMatch]_vars

\* three strategies, only the third returns a candidate, which scores 0.95
C5_Witness ==
  /\ numArtists = 1
  /\ matchPc = "done"
  /\ Len(searchAttempts) = 3
  /\ busquedas = 3
  /\ fallidas = 0
  /\ puntuados = 1
  /\ bestMatch.id = 2
  /\ bestConfidence = 950

\* ----------------------------------------------------------------------
\* C6: a search that throws does not end the resolution: the remaining
\* queries are still searched (until a score >= 0.9 stops the loop) and a
\* MatchResult is returned; findBestMatch never throws.
C6_FalloNoAborta ==
  /\ matchPc # "thrown"
  /\ (fallidas > 0 /\ matchPc \in {"salir", "done"} /\ bestConfidence < 900)
        => busquedas = Len(C_Consultas)
  /\ (fallidas > 0 /\ matchPc = "loop") => busquedas < Len(C_Consultas)

\* every search but one threw, the remaining one found the match
C6_Witness ==
  /\ numArtists = 2
  /\ matchPc = "done"
  /\ fallidas = Len(C_Consultas) - 1
  /\ busquedas = Len(C_Consultas)
  /\ bestMatch.id = 4

\* ----------------------------------------------------------------------
\* C7: in every MatchResult returned, tidalTrack is absent exactly when
\* confidence = 0; a present tidalTrack has 0.7 <= confidence <= 1; and
\* searchAttempts is non-empty whenever tidalTrack is absent.
C7_ResultadoBienFormado ==
  matchPc = "done" =>
    /\ (bestMatch = NoTrack) <=> (bestConfidence = 0)
    /\ bestMatch # NoTrack => (700 <= bestConfidence /\ bestConfidence <= 1000)
    /\ bestMatch = NoTrack => searchAttempts # <<>>

\* candidates were scored, none reached 0.7: an absent match is returned
C7_Witness ==
  /\ matchPc = "done"
  /\ puntuados >= 2
  /\ bestMatch = NoTrack
  /\ bestConfidence = 0
  /\ Len(searchAttempts) = 3

\* ======================================================================
\* Properties of the destination writes
\* ======================================================================

RECURSIVE C_Concat(_)
C_Concat(ss) == IF ss = <<>> THEN <<>> ELSE Head(ss) \o C_Concat(Tail(ss))

\* ----------------------------------------------------------------------
\* C8: for an id list of length n >= 1, when no write fails,
\* addTracksInBatches issues exactly ceil(n/20) addTracksToPlaylist calls,
\* each with 1..20 ids, and the chunks concatenated in call order are the
\* input list.
C8_LotesCubrenTodo ==
  (ruta \in {"update", "import"} /\ lotePc = "done" /\ Len(trackIds) >= 1) =>
    /\ Len(peticiones) * 20 >= Len(trackIds)
    /\ (Len(peticiones) - 1) * 20 < Len(trackIds)
    /\ \A i \in 1..Len(peticiones) :
         Len(peticiones[i]) >= 1 /\ Len(peticiones[i]) <= 20
    /\ C_Concat(peticiones) = trackIds

\* 41 ids written in three chunks of 20, 20 and 1
C8_Witness ==
  /\ ruta = "update"
  /\ lotePc = "done"
  /\ Len(trackIds) = 41
  /\ Len(peticiones) = 3
  /\ Len(peticiones[3]) = 1
  /\ playlistTidal = trackIds

\* ----------------------------------------------------------------------
\* C9: in every sync path (create, update) each addTracksToPlaylist request
\* carries at least 1 and at most 20 ids.
C9_PeticionesAcotadas ==
  ruta \in {"create", "update"} =>
    \A i \in 1..Len(peticiones) :
      Len(peticiones[i]) >= 1 /\ Len(peticiones[i]) <= 20

\* ----------------------------------------------------------------------
\* C10: batched writing is all-or-nothing: when the write of a chunk fails,
\* the destination playlist holds none of the ids of the batched operation.
C10_TodoONada ==
  lotePc = "thrown" =>
    \A i \in 1..Len(playlistTidal) :
      \A j \in 1..Len(trackIds) : playlistTidal[i] # trackIds[j]

\* ======================================================================
\* Properties of the synchronisation run
\* ======================================================================

\* the result performFullSync pushed last
C_Ultimo == summary.results[Len(summary.results)]

\* s is strictly increasing
C_Creciente(s) == \A i, k \in DOMAIN s : i < k => s[i] < s[k]

\* the source tracks the per-track entries of errs name, in order
RECURSIVE C_TracksDe(_)
C_TracksDe(errs) ==
  IF errs = <<>> THEN <<>>
  ELSE IF Head(errs).track # 0 THEN << Head(errs).track >> \o C_TracksDe(Tail(errs))
  ELSE C_TracksDe(Tail(errs))

\* C11: once both rosters are fetched, performFullSync never throws and pushes
\* exactly one result per source playlist, in source order: while the playlist
\* at position syncIdx is at hand the results are those of the playlists
\* before it, and at the return there is one per playlist.  When the create
\* or update method of a playlist threw (createPlaylist failed, the batch
\* write gave up, the tracks could not be read), the result of that playlist
\* is 'skipped' and quotes the error in its errors, and the loop goes on.
C11_UnResultadoPorPlaylist ==
  /\ syncPc # "thrown"
  /\ Len(summary.results) = syncIdx - 1
  /\ \A i \in 1..Len(summary.results) :
       summary.results[i].playlistName = plan[i].spotifyPlaylist.name
  /\ syncPc = "done" => Len(summary.results) = Len(plan)
  /\ (syncPc \in {"loop", "done"} /\ lanzado # "") =>
       /\ C_Ultimo.action = "skipped"
       /\ \E k \in DOMAIN C_Ultimo.errors :
            /\ C_Ultimo.errors[k].causa = lanzado
            /\ C_Ultimo.errors[k].msg \in {"Failed to create playlist",
                                           "Failed to update playlist"}

\* a run of two playlists returned: the first was skipped because its create or
\* update method threw, the second was processed all the same
C11_Witness ==
  /\ syncPc = "done"
  /\ Len(plan) = 2
  /\ summary.results[1].action = "skipped"
  /\ summary.results[1].errors[1].causa = "ErrorServicioNoDisponible"
  /\ summary.results[2].action \in {"created", "updated"}
  /\ summary.results[2].successfulTracks > 0

\* C12: once a remote call made while a playlist is created or updated has
\* ended with an authentication error, performFullSync has thrown: the run
\* does not go on with a 'skipped' result.
C12_AuthAborta == authVisto => syncPc = "thrown"

\* C13: the result of a playlist planned as 'skip' has action 'skipped', no
\* processed track (totalTracks = successfulTracks = failedTracks = 0) and the
\* planner's reason as its only message, and no remote call was made for it.
C13_SkipSinTracks ==
  \A i \in 1..Len(summary.results) :
    plan[i].action = "skip" =>
      /\ summary.results[i].action = "skipped"
      /\ summary.results[i].totalTracks = 0
      /\ summary.results[i].successfulTracks = 0
      /\ summary.results[i].failedTracks = 0
      /\ summary.results[i].errors = << Entrada(plan[i].reason, "", 0) >>
      /\ i \notin conLlamadas

\* C14: after clearPlaylist has thrown in updateExistingPlaylist the update goes
\* on: the tracks are searched, when the loop is over every source track has
\* been resolved (found or failed), and unless the later write throws the
\* result is 'updated', counts every track and the found ids were written.
C14_LimpiezaNoAborta ==
  limpiezaFallida =>
    /\ syncPc \in {"buscar", "lotes", "loop", "done"}
    /\ syncPc = "lotes" =>
         /\ trackIdx > tracksUpd
         /\ Len(foundTrackIds) + Len(failedTracksUpd) = tracksUpd
    /\ (syncPc \in {"loop", "done"} /\ lanzado = "") =>
         /\ C_Ultimo.action = "updated"
         /\ C_Ultimo.successfulTracks + C_Ultimo.failedTracks = C_Ultimo.totalTracks
         /\ Len(escritos) = C_Ultimo.successfulTracks

\* clearPlaylist threw, and the update wrote the ids it found
C14_Witness ==
  /\ limpiezaFallida
  /\ syncPc = "loop"
  /\ lanzado = ""
  /\ C_Ultimo.action = "updated"
  /\ escritos # <<>>

\* what the resolver of the create path selects for the same catalog answer:
\* the id of the best candidate with a score of at least 0.7, or nothing (0)
C15_Resolver(items) ==
  LET m == FindBestMatch(items) IN IF m.best # NoTrack THEN m.best.id ELSE 0

\* C15: for every track the update path has resolved, the id it selected (0 for
\* a failure) is the one the resolver of the create path selects for the same
\* catalog answer.
C15_MismaSeleccion ==
  ultimaResolucion.track # 0 =>
    ultimaResolucion.elegido = C15_Resolver(ultimaResolucion.items)

\* C16: on the create path the ids handed to the destination write, and the
\* per-track entries of the errors, are in source-track order whatever the
\* order in which the promises of a group completed.
C16_OrdenFuente ==
  /\ syncPc = "escribir" => C_Creciente(origenMatched)
  /\ \A i \in 1..Len(summary.results) :
       plan[i].action = "create" => C_Creciente(C_TracksDe(summary.results[i].errors))

\* ======================================================================
\* Properties of the application
\* ======================================================================

\* C17: a process that exited on SIGINT or SIGTERM left the progress file
\* holding the state it had at that moment.
C17_GuardadoAlSalir ==
  (appPc = "exited" /\ salida = "senal") => (archivo.existe /\ archivo.state = state)

\* C18: during authenticateServices each user-authentication operation
\* (authenticateTidalUser, authenticateSpotifyUser) is invoked at most
\* maxRetries times in total.
C18_AuthAcotada ==
  /\ invocaciones.tidal <= maxRetries
  /\ invocaciones.spotify <= maxRetries

\* the raw failures: what is not yet an ErrorSpotifyTidal
C19_Crudo(o) == o.tipo \in {"axios", "error", "otro"}

\* the kind of a classified error
C19_Clase(e) ==
  CASE e.name = "ErrorAutenticacion" -> "Auth"
    [] e.name = "ErrorLimiteVelocidad" -> "RateLimit"
    [] e.name = "ErrorRed" -> "Network"
    [] e.name = "ErrorServicioNoDisponible" -> "ServiceUnavailable"
    [] e.name = "ErrorSpotifyTidal"
       /\ e.codigo \in {"ERROR_CLIENTE_400", "ERROR_CLIENTE_404", "ERROR_CLIENTE_4xx"}
         -> "ClientError"
    [] OTHER -> "Unknown"

\* the kind and the retryability the taxonomy gives a raw failure
C19_Esperado(o) ==
  IF o.tipo = "axios" /\ o.estado = 0
    THEN [clase |-> "Network", reintentar |-> TRUE]
  ELSE IF o.tipo = "axios" /\ (o.estado \in {401, 403} \/ (o.estado = 400 /\ o.oauth))
    THEN [clase |-> "Auth", reintentar |-> FALSE]
  ELSE IF o.tipo = "axios" /\ o.estado = 429
    THEN [clase |-> "RateLimit", reintentar |-> TRUE]
  ELSE IF o.tipo = "axios" /\ o.estado >= 500 /\ o.estado <= 599
    THEN [clase |-> "ServiceUnavailable", reintentar |-> TRUE]
  ELSE IF o.tipo = "axios" /\ o.estado >= 400 /\ o.estado <= 499
    THEN [clase |-> "ClientError", reintentar |-> FALSE]
  ELSE IF o.tipo = "error" /\ o.codigoRed
    THEN [clase |-> "Network", reintentar |-> TRUE]
  ELSE [clase |-> "Unknown", reintentar |-> FALSE]

\* C19: clasificarError gives every raw failure the kind of the taxonomy, with
\* the retryability of that kind: 401/403 and 400 with an OAuth error -> Auth,
\* not retryable; 429 -> RateLimit, retryable; no response or a network error
\* code -> Network, retryable; 5xx -> ServiceUnavailable, retryable; another
\* 4xx -> ClientError, not retryable; anything else -> Unknown, not retryable.
\* The error the wrapper holds after a failed invocation is that classification.
C19_Taxonomia ==
  /\ \A i \in DOMAIN llamadas :
       C19_Crudo(llamadas[i]) =>
         LET e == ClasificarError(llamadas[i], Servicio)
         IN /\ C19_Clase(e) = C19_Esperado(llamadas[i]).clase
            /\ e.reintentar = C19_Esperado(llamadas[i]).reintentar
  /\ (llamadas # <<>> /\ C19_Crudo(llamadas[Len(llamadas)])) =>
       ultimoError = ClasificarError(llamadas[Len(llamadas)], Servicio)

\* a 503 was classified and retried, then a 400 with an OAuth error ended the
\* retries as an authentication error
C19_Witness ==
  /\ Len(llamadas) = 2
  /\ llamadas[1].tipo = "axios" /\ llamadas[1].estado = 503
  /\ llamadas[2].tipo = "axios" /\ llamadas[2].estado = 400 /\ llamadas[2].oauth
  /\ ultimoError.name = "ErrorAutenticacion"
  /\ reintPc = "lanzado"

\* C20: a process started after one that was interrupted by a signal does not
\* process again a playlist the progress file it found records as processed.
C20_NoReprocesa ==
  (corrida > 1 /\ salidaPrevia = "senal") =>
    \A i \in 1..sincronizadas :
      \A k \in DOMAIN archivoAlInicio.state.processedPlaylists :
        archivoAlInicio.state.processedPlaylists[k] # i

\* ======================================================================
\* Properties of the text comparison
\* ======================================================================

\* ----------------------------------------------------------------------
\* C21: normalizeString is idempotent: applied to its own result it returns
\* that result unchanged, for every input string.
C21_Idempotente ==
  /\ textoPc = "renormalizar" => normalizado = NormalizeString(texto)
  /\ textoPc = "fin" /\ fuente = NoFuente => renormalizado = normalizado

\* "÷A<tab>" normalises to "a", and "a" normalises to itself
C21_Witness ==
  /\ texto = <<"÷", "A", "\t">>
  /\ normalizado = <<"a">>
  /\ renormalizado = <<"a">>
  /\ textoPc = "fin"

\* ----------------------------------------------------------------------
\* C22: a candidate that carries the title, artists, album and duration of
\* the source track scores exactly 1.0, for every source track with a
\* non-empty artist list and a duration >= 0, zero included.
C22_CopiaPuntuaUno ==
  textoPc \in {"buscar", "fin"} /\ fuente # NoFuente /\ candidato = CopiaDe(fuente)
    => similitud = 1000

\* ----------------------------------------------------------------------
\* C23: for the source track "Shape of You" by "Ed Sheeran" (album "÷",
\* 233713 ms) and the candidate with the same title and artist, 234000 ms
\* and album "Divide", the score is >= 0.9, and findBestMatch ends with that
\* candidate after its first search.
C23_ShapeOfYouAlta ==
  textoPc = "fin" /\ fuente = ShapeOfYou /\ candidato = ShapeOfYouDivide
    => /\ similitud >= HIGH_CONFIDENCE_THRESHOLD
       /\ consultasTexto = 1
       /\ mejorTexto.best.id = ShapeOfYouDivide.id

\* ======================================================================
\* Properties of the retry delays
\* ======================================================================

\* the capped exponential delay after attempt n
C24_D(n) ==
  Min(configuracion.retrasoBase * Pow(configuracion.multiplicadorRetroceso, n - 1),
      configuracion.retrasoMaximo)

C24_RedOServicio(o) ==
  C_EsFallo(o) /\ C_Clasificado(o).name \in {"ErrorRed", "ErrorServicioNoDisponible"}

\* ----------------------------------------------------------------------
\* C24: after a Network or ServiceUnavailable failure of attempt
\* n < maxReintentos a delay is slept before attempt n + 1; it is
\* d = min(retrasoBase * multiplicadorRetroceso^(n-1), retrasoMaximo) without
\* jitter, lies between floor(d / 2) and d with jitter, and never exceeds
\* retrasoMaximo.
C24_RetrocesoExponencial ==
  \A n \in 1..Len(llamadas) :
    C24_RedOServicio(llamadas[n]) /\ n < configuracion.maxReintentos
      => /\ Len(dormidos) >= n
         /\ ~configuracion.variacion => dormidos[n] = C24_D(n)
         /\ configuracion.variacion =>
              C24_D(n) \div 2 <= dormidos[n] /\ dormidos[n] <= C24_D(n)
         /\ dormidos[n] <= configuracion.retrasoMaximo

\* jitter on, retrasoMaximo 1500: a network failure, then a 503; the second
\* delay is taken from the capped 1500, not from 2000
C24_Witness ==
  /\ configuracion.variacion
  /\ configuracion.retrasoMaximo = RetrasoMaximoCorto
  /\ configuracion.maxReintentos = 3
  /\ Len(llamadas) >= 2
  /\ llamadas[1].tipo = "axios" /\ llamadas[1].estado = 0
  /\ llamadas[2].tipo = "axios" /\ llamadas[2].estado = 503
  /\ dormidos = <<750, 1125>>

C25_LimiteVelocidad(o) == C_EsFallo(o) /\ C_Clasificado(o).name = "ErrorLimiteVelocidad"

\* ----------------------------------------------------------------------
\* C25: after a RateLimit (429) failure of a non-final attempt the delay
\* slept is the retry-after header in milliseconds when the header is present
\* and numeric, whatever the jitter setting and retrasoMaximo are, and
\* 5000 ms when the header is absent or not numeric.
C25_RetryAfter ==
  \A n \in 1..Len(llamadas) :
    C25_LimiteVelocidad(llamadas[n]) /\ n < configuracion.maxReintentos
      => /\ Len(dormidos) >= n
         /\ LET h == llamadas[n].retryAfter
            IN IF h.presente /\ h.numerico
               THEN dormidos[n] = h.segundos * 1000
               ELSE dormidos[n] = 5000

\* jitter on, retrasoMaximo 1500: a 429 with retry-after "2" is followed by a
\* sleep of 2000 ms, a 429 with a non-numeric header by one of 5000 ms
C25_Witness ==
  /\ configuracion.variacion
  /\ configuracion.retrasoMaximo = RetrasoMaximoCorto
  /\ Len(llamadas) >= 2
  /\ llamadas[1].tipo = "axios" /\ llamadas[1].estado = 429
  /\ llamadas[1].retryAfter = [presente |-> TRUE, numerico |-> TRUE, segundos |-> 2]
  /\ llamadas[2].tipo = "axios" /\ llamadas[2].estado = 429
  /\ llamadas[2].retryAfter = [presente |-> TRUE, numerico |-> FALSE, segundos |-> 0]
  /\ dormidos = <<2000, 5000>>

\* ======================================================================
\* Properties of the candidate selection and of the search queries
\* ======================================================================

\* ----------------------------------------------------------------------
\* C26: when no candidate returned by any query scores >= 0.9, findBestMatch
\* returns the candidate with the largest score among all candidates of all
\* queries, the earliest one when several have that score, provided that
\* score is >= 0.7; otherwise it returns no match.
C26_MejorCandidato ==
  matchPc = "done" /\ vistoMax.max < HIGH_CONFIDENCE_THRESHOLD
    => IF vistoMax.max >= SIMILARITY_THRESHOLD
       THEN bestMatch = vistoMax.primero /\ bestConfidence = vistoMax.max
       ELSE bestMatch = NoTrack /\ bestConfidence = 0

\* candidates 4 and 7 both score 0.85, 4 was returned first and is the match
C26_Witness ==
  /\ matchPc = "done"
  /\ vistoMax.max = 850
  /\ vistoMax.primero.id = 4
  /\ vistoMax.otros = {7}
  /\ bestMatch.id = 4
  /\ bestConfidence = 850

\* the query the claim places at position i of the list of a track with n
\* artists: strategy 1 is primary artist + title + album, 2 primary artist +
\* title, 3 primary artist + cleaned title, 4 all artists joined + title,
\* 5 a non-primary artist + title
C27_Esperada(n, i) ==
  IF i <= 3 THEN [estrategia |-> i, artista |-> 1]
  ELSE IF i = 4 THEN [estrategia |-> 4, artista |-> 0]
  ELSE [estrategia |-> 5, artista |-> i - 3]

C27_Cantidad(n) == IF n > 1 THEN 3 + n ELSE 3

C_PorLotes == ruta \in {"update", "import"}

\* ----------------------------------------------------------------------
\* C28: addTracksInBatches sends a chunk only when the write of every
\* earlier chunk has completed and the delay after it has been slept; the
\* inter-batch delay follows every chunk except the last, and no delay
\* follows the final chunk.
C28_LotesEnSerie ==
  /\ [](C_PorLotes =>
          /\ \A i \in 1..Len(esperas) : esperas[i] = 1000
          /\ lotePc \in {"write", "delay"} => Len(esperas) = Len(peticiones)
          /\ lotePc = "delay" => Len(peticiones) * 20 < Len(trackIds)
          /\ lotePc = "done" /\ Len(trackIds) >= 1 =>
               /\ Len(esperas) = Len(peticiones) - 1
               /\ Len(peticiones) * 20 >= Len(trackIds))
  /\ [][C_PorLotes /\ peticiones' # peticiones =>
          /\ playlistTidal = C_Concat(peticiones)
          /\ Len(esperas) = Len(peticiones)
          /\ Len(peticiones') = Len(peticiones) + 1]_vars

\* 41 ids imported in three chunks with a delay after the first and the second
C28_Witness ==
  /\ ruta = "import"
  /\ lotePc = "done"
  /\ Len(trackIds) = 41
  /\ Len(peticiones) = 3
  /\ esperas = <<1000, 1000>>
  /\ playlistTidal = trackIds

\* ----------------------------------------------------------------------
\* C29: when the write of a chunk fails, addTracksInBatches throws to its
\* caller and sends no further chunk: the failed chunk is the last request.
C29_FalloDetiene ==
  /\ [](C_PorLotes /\ playlistTidal # C_Concat(peticiones) =>
          /\ lotePc = "thrown"
          /\ playlistTidal = C_Concat(SubSeq(peticiones, 1, Len(peticiones) - 1)))
  /\ [][C_PorLotes /\ lotePc = "thrown" => peticiones' = peticiones]_vars

\* 41 ids: the first chunk is written, the second fails, the third is never sent
C29_Witness ==
  /\ ruta = "update"
  /\ lotePc = "thrown"
  /\ Len(trackIds) = 41
  /\ Len(peticiones) = 2
  /\ Len(playlistTidal) = 20
  /\ esperas = <<1000>>

\* ======================================================================
\* Properties of the resolution groups
\* ======================================================================

\* the group (0, 1, ...) of the track at position j
C30_GrupoDe(j) == (j - 1) \div 10

C_TieneEntrada(r, msg) == \E i \in 1..Len(r.errors) : r.errors[i].msg = msg

\* ----------------------------------------------------------------------
\* C31: on the create path a resolution that throws counts the track as
\* failed and the other tracks are still resolved; every result with action
\* 'created' has successfulTracks + failedTracks = totalTracks, whatever the
\* order in which the resolutions complete, and when the final write failed
\* it has successfulTracks = 0 and failedTracks = totalTracks.
C31_CuentasCuadran ==
  /\ syncPc = "grupo" =>
       Len(matchedTrackIds) + Len(errorsCreate) + Cardinality(pendientes)
         = Min(grupoI + batchSize, plan[syncIdx].spotifyPlaylist.tracks)
  /\ syncPc = "escribir" =>
       Len(matchedTrackIds) + Len(errorsCreate) = plan[syncIdx].spotifyPlaylist.tracks
  /\ \A i \in 1..Len(summary.results) :
       LET r == summary.results[i]
       IN r.action = "created" =>
            /\ r.successfulTracks + r.failedTracks = r.totalTracks
            /\ C_TieneEntrada(r, "Failed to add tracks to playlist") =>
                 r.successfulTracks = 0 /\ r.failedTracks = r.totalTracks
            /\ Cardinality({k \in 1..Len(r.errors) :
                              r.errors[k].msg = "Error matching track"}) <= r.failedTracks

\* two tracks: the resolution of the second throws first, the first is then
\* matched, and the write of the one id fails
C31_Witness ==
  /\ Len(summary.results) >= 1
  /\ LET r == summary.results[Len(summary.results)]
     IN /\ r.action = "created"
        /\ r.totalTracks = 2
        /\ r.successfulTracks = 0
        /\ r.failedTracks = 2
        /\ Len(r.errors) = 2
        /\ r.errors[1] = Entrada("Error matching track", "error", 2)
        /\ r.errors[2].msg = "Failed to add tracks to playlist"

\* ======================================================================
\* Properties of clearPlaylist
\* ======================================================================

\* ----------------------------------------------------------------------
\* C32: once clearPlaylist has returned successfully the destination
\* playlist holds no track, whatever the number of tracks it held, more
\* than 100 included.
C32_PlaylistVacia ==
  limpiarPc = "retornado" => contenido = <<>>

\* ======================================================================
\* Properties of the duration similarity
\* ======================================================================

\* |d[1] - d[2]|
C33_Diferencia(d) == IF d[1] >= d[2] THEN d[1] - d[2] ELSE d[2] - d[1]

\* r = |d1 - d2| / ((d1 + d2) / 2) is at most p tenths
C33_RHasta(d, p) == 20 * C33_Diferencia(d) <= p * (d[1] + d[2])

\* the value the steps give for the pair d
C33_Escalon(d) ==
  IF d[1] = 0 \/ d[2] = 0 THEN 500
  ELSE IF C33_RHasta(d, 1) THEN 1000
  ELSE IF C33_RHasta(d, 2) THEN 800
  ELSE IF C33_RHasta(d, 3) THEN 600
  ELSE 300

\* r of the pair d is at most r of the pair e, both without a zero
C33_RMenorIgual(d, e) ==
  C33_Diferencia(d) * (e[1] + e[2]) <= C33_Diferencia(e) * (d[1] + d[2])

\* ----------------------------------------------------------------------
\* C33: calculateDurationSimilarity returns 0.5 when either duration is 0;
\* otherwise 1.0 if r <= 0.10, 0.8 if r <= 0.20, 0.6 if r <= 0.30 and 0.3
\* beyond, so that of two pairs without a zero the one with the larger r
\* never gets the larger result.
C33_EscalonesDecrecientes ==
  /\ duracionPc \in {"segunda", "fin"} => similitudA = C33_Escalon(duracionesA)
  /\ duracionPc = "fin" =>
       /\ similitudB = C33_Escalon(duracionesB)
       /\ ( /\ duracionesA[1] # 0 /\ duracionesA[2] # 0
            /\ duracionesB[1] # 0 /\ duracionesB[2] # 0
            /\ C33_RMenorIgual(duracionesA, duracionesB) )
          => similitudA >= similitudB

\* both comparisons done: r = 0.1 exactly gives 1.0 and r = 0.3 exactly
\* gives 0.6
C33_Witness ==
  /\ duracionPc = "fin"
  /\ duracionesA = <<19000, 21000>> /\ similitudA = 1000
  /\ duracionesB = <<23000, 17000>> /\ similitudB = 600

\* ======================================================================
\* Properties of the summary, of the update result and of the accepted matches
\* ======================================================================

\* the number of results of the summary whose action is a
C34_Resultados(a) ==
  Cardinality({i \in 1..Len(summary.results) : summary.results[i].action = a})

\* ----------------------------------------------------------------------
\* C34: in the summary performFullSync returns, playlistsCreated,
\* playlistsUpdated and playlistsSkipped are the numbers of results whose
\* action is 'created', 'updated' and 'skipped', a failed create or update
\* included, and the three add up to totalPlaylists.
C34_ContadoresPorAccion ==
  syncPc = "done" =>
    /\ summary.playlistsCreated = C34_Resultados("created")
    /\ summary.playlistsUpdated = C34_Resultados("updated")
    /\ summary.playlistsSkipped = C34_Resultados("skipped")
    /\ summary.playlistsCreated + summary.playlistsUpdated + summary.playlistsSkipped
         = summary.totalPlaylists

\* ----------------------------------------------------------------------
\* C35: when clearPlaylist failed during updateExistingPlaylist and the update
\* ran to completion, the errors of the returned result hold the 'Could not
\* clear existing playlist' warning.
C35_AvisoConservado ==
  (limpiezaFallida /\ syncPc \in {"loop", "done"} /\ C_Ultimo.action = "updated")
    => C_TieneEntrada(C_Ultimo, "Warning: Could not clear existing playlist")

C38_NingunaEntradaPerdida ==
  (sinMatch # {} /\ \A p \in sinMatch : logPc[p] = "fin") =>
    \A p \in sinMatch : \E k \in 1..Len(logArchivo) : logArchivo[k] = p

\* ======================================================================
\* Properties of the wait for the OAuth callback
\* ======================================================================

\* the event can settle the promise: the timeout, a request to /callback or
\* a server error
C39_Asienta(ev) ==
  ev.tipo \in {"timeout", "error"} \/ (ev.tipo = "solicitud" /\ ev.pathname = "/callback")

\* the settlement the event makes when it is the first that can settle
C39_Asentamiento(ev) ==
  IF ev.tipo = "timeout" THEN [via |-> "reject", valor |-> "expiro"]
  ELSE IF ev.tipo = "error"
  THEN [via |-> "reject",
        valor |-> IF ev.code = "EADDRINUSE" THEN "puerto en uso" ELSE "error del servidor"]
  ELSE [via |-> "resolve",
        valor |-> IF ev.query \in {"code", "error"} THEN ev.query ELSE "invalid_request"]

\* the positions of the history whose event can settle
C39_Candidatos == {i \in 1..Len(historial) : C39_Asienta(historial[i])}

\* ----------------------------------------------------------------------
\* C39: in every order of the timeout, the requests and the server errors,
\* the promise of waitForCallback is settled at most once, and exactly by the
\* first event that is the timeout, a request to /callback or a server error;
\* later events change nothing, requests to other paths never settle it, and
\* once it is settled by a callback or by the timeout the server is stopped.
C39_AsientaUnaVez ==
  /\ Len(asentamientos) <= 1
  /\ C39_Candidatos = {} => (asentamientos = <<>> /\ ~resolved /\ servidor = "creado")
  /\ C39_Candidatos # {} =>
       LET primero == historial[CHOOSE i \in C39_Candidatos :
                                  \A k \in C39_Candidatos : i <= k]
       IN /\ resolved
          /\ asentamientos = << C39_Asentamiento(primero) >>
          /\ primero.tipo \in {"timeout", "solicitud"} => servidor = "null"
          /\ temporizador # "pendiente"

\* a request to another path, then the callback with a code, then a server
\* error and a second callback: settled once, by the first callback
C39_Witness ==
  /\ Len(historial) = 4
  /\ historial[1].tipo = "solicitud" /\ historial[1].pathname = "/"
  /\ historial[2].tipo = "solicitud" /\ historial[2].pathname = "/callback"
  /\ historial[2].query = "code"
  /\ historial[3].tipo = "error"
  /\ historial[4].tipo = "solicitud" /\ historial[4].pathname = "/callback"
  /\ asentamientos = << [via |-> "resolve", valor |-> "code"] >>
  /\ respuestasHttp = <<404, 200>>
  /\ servidor = "null"

====
